---- MODULE Spec2Model ----
(***************************************************************************)
(* A model of the pasteproof browser extension: the telemetry queues of    *)
(* the content script and of the background worker, the custom-pattern     *)
(* registry and detectPii of src/shared/pii-detector.ts, and the scan      *)
(* handlers of the content script (performAiScan and its callers).         *)
(***************************************************************************)
EXTENDS Integers, Sequences, FiniteSets, TLC

(***************************************************************************)
(* Bounds of the model.                                                    *)
(***************************************************************************)
\* queue items created in the specification of both queues
MaxItems == 11
\* queue items created in the specification of the signed-out content script
MaxContentAdds == 101
\* batch deliveries whose fetch fails
MaxFailures == 2
\* segments a scanned text is made of
MaxSegments == 2
\* patterns in a list returned by getPatterns
MaxListLen == 2
\* getPatterns requests in flight at once
MaxFetches == 1
\* digits of the shortest and of the longest digit sequence of a text
MinCardDigits == 12
MaxCardDigits == 20
\* scans (handler invocations that call detectPii) started in a behaviour: a
\* step that would start one more is not taken
MaxScans == 2
\* changes of a field's text in a behaviour
MaxEdits == 1
\* calls of handleAnonymize in a behaviour
MaxMasks == 1
\* scans a behaviour starts once handleAnonymize was called: the one that
\* rendered the badge, and those of the timers of handleAnonymize
MaxMaskScans == 3
\* clicks on the AI scan button of the badge in a behaviour
MaxBadgeScans == 1
\* the longest text of blanks and letters shouldScanText is called with,
\* besides the texts around its limits
MaxGateLen == 2
\* milliseconds by which a step of the clock advances Date.now()
TickMs == 31000
\* the last value of Date.now() the clock reaches
MaxNow == 31000

(***************************************************************************)
(* Program constants.                                                      *)
(***************************************************************************)
\* DetectionQueue.BATCH_SIZE (content script and background)
BATCH_SIZE == 10
\* background DetectionQueue.MAX_QUEUE_SIZE
MAX_QUEUE_SIZE == 100
\* content.tsx: lifetime of an aiScanCache entry, in milliseconds
CACHE_DURATION == 30000
\* content.tsx: bounds of the length of a text worth a remote scan
MIN_TEXT_LENGTH == 10
MAX_TEXT_LENGTH == 5000

(***************************************************************************)
(* State.  Names with prefix c belong to the content script's process,     *)
(* names with prefix b to the background worker's: each process has its    *)
(* own DetectionQueue instance and its own apiClient singleton, and the    *)
(* two share no variable.  A behaviour follows one of the two processes    *)
(* (realm), chosen in the initial state.                                   *)
(***************************************************************************)
VARIABLES
    realm,        \* the process the behaviour follows: "content" or "background"
    cApiClient,   \* content script: getApiClient() # null
    cQueue,       \* content DetectionQueue.queue (items, oldest first)
    cProcessing,  \* content DetectionQueue.processing
    cDeliveries,  \* content: batches whose logDetectionsBatch is awaited
    cHanded,      \* history: items handed to logDetectionsBatch, in order
    cFailed,      \* history: items of batches whose delivery failed
    bApiClient,   \* background: getApiClient() # null
    bQueue,       \* background DetectionQueue.queue
    bProcessing,  \* background DetectionQueue.processing
    bDeliveries,  \* background: batches whose logDetectionsBatch is awaited
    bHanded,      \* history: items handed to logDetectionsBatch, in order
    bFailed,      \* history: items of batches whose delivery failed
    nextItem,     \* history: the number of items created so far
    failures,     \* history: the number of failed deliveries so far
    lastCall,     \* history: the operation of the last step
    hasToken,        \* storage holds local:authToken
    customPatterns,  \* pii-detector.ts: let customPatterns
    fetches,         \* getPatterns requests awaited by initializeCustomPatterns
    lastObtained,    \* history: the last list getPatterns returned
    lastRegistered,  \* history: the last list passed to setCustomPatterns
    regexLastIndex,  \* lastIndex of the regex of each entry of BUILT_IN_PATTERNS
    scanText,        \* history: the text of the last detectPii call
    scanPatterns,    \* history: customPatterns at the last detectPii call
    scanResult,      \* history: what the last detectPii call returned
    mergeLog,        \* history: the last merge of personal and team patterns
    autoAiScan,        \* content.tsx main: const autoAiScan
    activeInput,       \* let activeInput (a field or Null)
    focused,           \* document.activeElement (a field or Null)
    contextMenuInput,  \* let contextMenuInput (a field or Null)
    fieldText,         \* the value of each field
    indicator,         \* badgeContainer / dotContainer and what was rendered in it
    blurTimer,         \* the 100 ms timer of the focusout listener is pending
    aiScanCache,       \* const aiScanCache: key -> [detections, timestamp]
    now,               \* Date.now()
    scans,             \* handler invocations suspended at an await
    started,           \* history: the input and text of each scan started
    calls,             \* history: the analyzeContext calls issued
    edits,             \* history: the number of text changes so far
    scanElement,       \* history: the element of the last filtered scan
    scanExpected,      \* history: what getExpectedInputType returned for it
    scanFiltered,      \* history: what filterExpectedDetections returned
    maskTimers,        \* the pending timers that handleAnonymize started
    maskLog,           \* history: the last call of handleAnonymize
    badgeCalls,        \* history: the texts of the analyzeContext calls of the badge
    gateLog,           \* history: the last call of shouldScanText and its result
    aiScan             \* the invocation of performAiScan with local detection

queueVars == <<realm, cApiClient, cQueue, cProcessing, cDeliveries, cHanded, cFailed,
               bApiClient, bQueue, bProcessing, bDeliveries, bHanded, bFailed,
               nextItem, failures, lastCall>>

detVars == <<hasToken, customPatterns, fetches, lastObtained, lastRegistered,
             regexLastIndex, scanText, scanPatterns, scanResult, mergeLog>>

maskVars == <<scanElement, scanExpected, scanFiltered, maskTimers, maskLog, badgeCalls,
              gateLog, aiScan>>

uiVars == <<autoAiScan, activeInput, focused, contextMenuInput, fieldText, indicator,
            blurTimer, aiScanCache, now, scans, started, calls, edits, maskVars>>

vars == <<queueVars, detVars, uiVars>>

(***************************************************************************)
(* Sequence helpers (Array.prototype.splice / slice / unshift).            *)
(***************************************************************************)
Min(a, b) == IF a <= b THEN a ELSE b

Range(s) == {s[i] : i \in 1..Len(s)}

\* a splice that hands over the whole queue and removes n elements
SpliceTakenWhole(q, n) == q

\* the removed elements of queue.splice(0, n)
SpliceTaken(q, n) == SubSeq(q, 1, Min(n, Len(q)))

\* what queue.splice(0, n) leaves in the queue
SpliceRest(q, n) == SubSeq(q, Min(n, Len(q)) + 1, Len(q))

\* queue.slice(-n)
SliceLast(q, n) == IF Len(q) <= n THEN q ELSE SubSeq(q, Len(q) - n + 1, Len(q))

RemoveAt(s, k) == SubSeq(s, 1, k - 1) \o SubSeq(s, k + 1, Len(s))

Count(x, s) == Cardinality({i \in 1..Len(s) : s[i] = x})

(***************************************************************************)
(* PasteProofApiClient.logDetectionsBatch: the fetch is wrapped in a       *)
(* try/catch that only warns, so the promise resolves whether or not the   *)
(* request succeeded.                                                      *)
(***************************************************************************)
logDetectionsBatchRethrows(fetchOk) == IF fetchOk THEN "resolved" ELSE "rejected"

logDetectionsBatch(fetchOk) == "resolved"

(***************************************************************************)
(* Content script DetectionQueue.                                          *)
(* A queue state is [queue, processing, deliveries, handed].               *)
(***************************************************************************)
ContentState ==
    [queue |-> cQueue, processing |-> cProcessing,
     deliveries |-> cDeliveries, handed |-> cHanded]

\* flush() without the re-entrancy guard
ContentFlushNoGuard(st) ==
    IF Len(st.queue) = 0 THEN st
    ELSE IF ~cApiClient THEN st
    ELSE [queue      |-> SpliceRest(st.queue, BATCH_SIZE),
          processing |-> TRUE,
          deliveries |-> Append(st.deliveries, SpliceTaken(st.queue, BATCH_SIZE)),
          handed     |-> st.handed \o SpliceTaken(st.queue, BATCH_SIZE)]

\* flush(), up to its await: the guard, processing = true, the lookup of the
\* client (processing = false and return when there is none), the splice of
\* the batch and the call of logDetectionsBatch
ContentFlush(st) ==
    IF st.processing \/ Len(st.queue) = 0 THEN st
    ELSE IF ~cApiClient THEN st
    ELSE [queue      |-> SpliceRest(st.queue, BATCH_SIZE),
          processing |-> TRUE,
          deliveries |-> Append(st.deliveries, SpliceTaken(st.queue, BATCH_SIZE)),
          handed     |-> st.handed \o SpliceTaken(st.queue, BATCH_SIZE)]

\* add(detection): push, then flush() once the queue holds BATCH_SIZE items
ContentAddTo(st, item) ==
    LET pushed == [st EXCEPT !.queue = Append(st.queue, item)]
    IN  IF Len(pushed.queue) >= BATCH_SIZE THEN ContentFlush(pushed) ELSE pushed

SetContent(st) ==
    /\ cQueue' = st.queue
    /\ cProcessing' = st.processing
    /\ cDeliveries' = st.deliveries
    /\ cHanded' = st.handed

bgVars == <<bApiClient, bQueue, bProcessing, bDeliveries, bHanded, bFailed>>
contentVars == <<cApiClient, cQueue, cProcessing, cDeliveries, cHanded, cFailed>>

\* detectionQueue.add(...) called by a handler of the content script
ContentAdd(limit) ==
    /\ UNCHANGED <<detVars, uiVars>>
    /\ realm = "content"
    /\ nextItem < limit
    /\ SetContent(ContentAddTo(ContentState, nextItem + 1))
    /\ nextItem' = nextItem + 1
    /\ lastCall' = IF cProcessing /\ Len(cQueue) + 1 >= BATCH_SIZE
                   THEN "cAddBusy" ELSE "cAdd"
    /\ UNCHANGED <<cApiClient, cFailed, bgVars, failures, realm>>

\* flush() called by the setInterval timer or by ctx.onInvalidated
ContentFlushCall ==
    /\ UNCHANGED <<detVars, uiVars>>
    /\ realm = "content"
    /\ SetContent(ContentFlush(ContentState))
    /\ lastCall' = IF cProcessing THEN "cFlushBusy" ELSE "cFlush"
    /\ UNCHANGED <<cApiClient, cFailed, bgVars, nextItem, failures, realm>>

\* a settling that leaves the processing flag set
ContentAfterDeliveryKeepsFlag(st, k, outcome) ==
    [st EXCEPT !.deliveries = RemoveAt(st.deliveries, k)]

\* flush() after the awaited logDetectionsBatch of delivery k settles: the
\* catch block only warns and re-queues nothing, whatever the outcome, and the
\* finally block clears processing
ContentAfterDelivery(st, k, outcome) ==
    [st EXCEPT !.deliveries = RemoveAt(st.deliveries, k), !.processing = FALSE]

ContentDeliveryDone(k, fetchOk) ==
    /\ UNCHANGED <<detVars, uiVars>>
    /\ realm = "content"
    /\ k \in 1..Len(cDeliveries)
    /\ fetchOk \/ failures < MaxFailures
    /\ SetContent(ContentAfterDelivery(ContentState, k, logDetectionsBatch(fetchOk)))
    /\ cFailed' = IF fetchOk THEN cFailed ELSE cFailed \cup Range(cDeliveries[k])
    /\ failures' = IF fetchOk THEN failures ELSE failures + 1
    /\ lastCall' = "cDone"
    /\ UNCHANGED <<cApiClient, bgVars, nextItem, realm>>

\* initializeApiClient(token) in the content script
ContentInitializeApiClient ==
    /\ UNCHANGED <<detVars, uiVars>>
    /\ realm = "content"
    /\ ~cApiClient
    /\ cApiClient' = TRUE
    /\ lastCall' = "cClient"
    /\ UNCHANGED <<cQueue, cProcessing, cDeliveries, cHanded, cFailed, bgVars,
                   nextItem, failures, realm>>

(***************************************************************************)
(* Background DetectionQueue.                                              *)
(***************************************************************************)
BgState ==
    [queue |-> bQueue, processing |-> bProcessing,
     deliveries |-> bDeliveries, handed |-> bHanded]

\* the first batch of processQueue's while loop, up to its await
BgTakeBatch(st) ==
    [queue      |-> SpliceRest(st.queue, BATCH_SIZE),
     processing |-> TRUE,
     deliveries |-> Append(st.deliveries, SpliceTaken(st.queue, BATCH_SIZE)),
     handed     |-> st.handed \o SpliceTaken(st.queue, BATCH_SIZE)]

\* processQueue(), up to its first await
BgProcessQueue(st) ==
    IF st.processing \/ Len(st.queue) = 0 THEN st
    ELSE IF ~bApiClient THEN st
    ELSE BgTakeBatch(st)

\* add(detection): push, keep the newest MAX_QUEUE_SIZE items, processQueue()
BgAddTo(st, item) ==
    LET pushed == Append(st.queue, item)
        kept   == IF Len(pushed) > MAX_QUEUE_SIZE
                  THEN SliceLast(pushed, MAX_QUEUE_SIZE) ELSE pushed
    IN  BgProcessQueue([st EXCEPT !.queue = kept])

SetBg(st) ==
    /\ bQueue' = st.queue
    /\ bProcessing' = st.processing
    /\ bDeliveries' = st.deliveries
    /\ bHanded' = st.handed

\* queueDetection(detection)
BgAdd ==
    /\ UNCHANGED <<detVars, uiVars>>
    /\ realm = "background"
    /\ nextItem < MaxItems
    /\ SetBg(BgAddTo(BgState, nextItem + 1))
    /\ nextItem' = nextItem + 1
    /\ lastCall' = IF bProcessing THEN "bAddBusy" ELSE "bAdd"
    /\ UNCHANGED <<bApiClient, bFailed, contentVars, failures, realm>>

\* detectionQueue.flush() called by the 30 s timer or by runtime.onSuspend
BgFlushCall ==
    /\ UNCHANGED <<detVars, uiVars>>
    /\ realm = "background"
    /\ SetBg(BgProcessQueue(BgState))
    /\ lastCall' = IF bProcessing THEN "bFlushBusy" ELSE "bFlush"
    /\ UNCHANGED <<bApiClient, bFailed, contentVars, nextItem, failures, realm>>

\* processQueue() after the awaited logDetectionsBatch of delivery k settles:
\* resolved, the loop goes on with the next batch or ends; rejected, the catch
\* block puts the batch back at the front and breaks; finally clears processing
BgAfterDelivery(st, k, outcome) ==
    LET done == [st EXCEPT !.deliveries = RemoveAt(st.deliveries, k)]
    IN  IF outcome = "rejected"
        THEN [done EXCEPT !.queue = st.deliveries[k] \o st.queue,
                          !.processing = FALSE]
        ELSE IF Len(done.queue) > 0
             THEN BgTakeBatch(done)
             ELSE [done EXCEPT !.processing = FALSE]

BgDeliveryDone(k, fetchOk) ==
    /\ UNCHANGED <<detVars, uiVars>>
    /\ realm = "background"
    /\ k \in 1..Len(bDeliveries)
    /\ fetchOk \/ failures < MaxFailures
    /\ SetBg(BgAfterDelivery(BgState, k, logDetectionsBatch(fetchOk)))
    /\ bFailed' = IF fetchOk THEN bFailed ELSE bFailed \cup Range(bDeliveries[k])
    /\ failures' = IF fetchOk THEN failures ELSE failures + 1
    /\ lastCall' = "bDone"
    /\ UNCHANGED <<bApiClient, contentVars, nextItem, realm>>

\* initializeApiClient(apiKey) in the background worker
BgInitializeApiClient ==
    /\ UNCHANGED <<detVars, uiVars>>
    /\ realm = "background"
    /\ ~bApiClient
    /\ bApiClient' = TRUE
    /\ lastCall' = "bClient"
    /\ UNCHANGED <<bQueue, bProcessing, bDeliveries, bHanded, bFailed,
                   contentVars, nextItem, failures, realm>>

(***************************************************************************)
(* src/shared/pii-detector.ts.  A text is a sequence of characters; offsets *)
(* are JavaScript's (0-based): the character at offset k is text[k + 1].   *)
(***************************************************************************)
\* the value of an absent optional number (start?: number, end?: number)
Undefined == -1

Digits == {"0", "1", "2", "3", "4", "5", "6", "7", "8", "9"}

UpperSeq == <<"A", "B", "C", "D", "E", "F", "G", "H", "I", "J", "K", "L", "M",
              "N", "O", "P", "Q", "R", "S", "T", "U", "V", "W", "X", "Y", "Z">>

LowerSeq == <<"a", "b", "c", "d", "e", "f", "g", "h", "i", "j", "k", "l", "m",
              "n", "o", "p", "q", "r", "s", "t", "u", "v", "w", "x", "y", "z">>

UpperChars == Range(UpperSeq)

Letters == UpperChars \cup Range(LowerSeq)

\* \w
WordChars == Letters \cup Digits \cup {"_"}

\* String.prototype.toLowerCase, and the folding of the i flag, on one character
Lower(c) ==
    IF c \in UpperChars
    THEN LowerSeq[CHOOSE i \in 1..Len(UpperSeq) : UpperSeq[i] = c]
    ELSE c

LowerAll(str) == [i \in 1..Len(str) |-> Lower(str[i])]

Max(S) == CHOOSE x \in S : \A y \in S : y <= x

\* the character at offset k, "" outside the text
CharAt(text, k) == IF k >= 0 /\ k < Len(text) THEN text[k + 1] ELSE ""

\* text.substring(a, b)
Substring(text, a, b) == SubSeq(text, a + 1, b)

\* \b at offset k: exactly one of the characters before and after is a \w
WordBoundary(text, k) ==
    (CharAt(text, k - 1) \in WordChars) # (CharAt(text, k) \in WordChars)

\* the end of the longest run of characters of class from offset k
RunEnd(text, k, class) ==
    LET n == Len(text)
    IN  IF \A i \in k..(n - 1) : text[i + 1] \in class THEN n
        ELSE CHOOSE e \in k..(n - 1) :
                /\ text[e + 1] \notin class
                /\ \A i \in k..(e - 1) : text[i + 1] \in class

\* [A-Za-z0-9._%+-]
EmailLocalChars == Letters \cup Digits \cup {".", "_", "%", "+", "-"}

\* [A-Za-z0-9.-]
EmailDomainChars == Letters \cup Digits \cup {".", "-"}

\* [A-Z|a-z]
EmailTldChars == Letters \cup {"|"}

\* /\b\d{3}-\d{2}-\d{4}\b/ tried at offset k: the end of the match, or
\* Undefined
SsnMatchEnd(text, k) ==
    IF /\ WordBoundary(text, k)
       /\ \A i \in {0, 1, 2, 4, 5, 7, 8, 9, 10} : CharAt(text, k + i) \in Digits
       /\ CharAt(text, k + 3) = "-"
       /\ CharAt(text, k + 6) = "-"
       /\ WordBoundary(text, k + 11)
    THEN k + 11
    ELSE Undefined

\* the ends the top-level part \.[A-Z|a-z]{2,}\b can reach when the dot is at
\* offset dot
EmailTldEnds(text, dot) ==
    {e \in (dot + 3)..RunEnd(text, dot + 1, EmailTldChars) : WordBoundary(text, e)}

\* /\b[A-Za-z0-9._%+-]+@[A-Za-z0-9.-]+\.[A-Z|a-z]{2,}\b/ tried at offset k.
\* The local part is the whole run up to the "@" (no shorter one is followed
\* by "@"); the greedy domain part gives back characters until a dot is
\* followed by a top-level part, which is greedy too.
EmailDots(text, at) ==
    {d \in (at + 2)..(RunEnd(text, at + 1, EmailDomainChars) - 1) :
        CharAt(text, d) = "." /\ EmailTldEnds(text, d) # {}}

EmailEndAfter(text, dots) ==
    IF dots # {} THEN Max(EmailTldEnds(text, Max(dots))) ELSE Undefined

EmailMatchFrom(text, k, at) ==
    IF /\ WordBoundary(text, k)
       /\ at > k
       /\ CharAt(text, at) = "@"
    THEN EmailEndAfter(text, EmailDots(text, at))
    ELSE Undefined

EmailMatchEnd(text, k) == EmailMatchFrom(text, k, RunEnd(text, k, EmailLocalChars))

\* k..k+n-1 hold digits
AllDigits(text, k, n) == \A i \in 0..(n - 1) : CharAt(text, k + i) \in Digits

\* the ends the alternatives of the CREDIT_CARD group reach from offset k, in
\* the order the matcher tries them: 4[0-9]{12}(?:[0-9]{3})? with and without
\* its optional part, 5[1-5][0-9]{14}, 3[47][0-9]{13}, 3[0-9]{13},
\* 6(?:011|5[0-9]{2})[0-9]{12}
CardAlternatives(text, k) ==
    <<IF CharAt(text, k) = "4" /\ AllDigits(text, k + 1, 15) THEN k + 16 ELSE Undefined,
      IF CharAt(text, k) = "4" /\ AllDigits(text, k + 1, 12) THEN k + 13 ELSE Undefined,
      IF /\ CharAt(text, k) = "5"
         /\ CharAt(text, k + 1) \in {"1", "2", "3", "4", "5"}
         /\ AllDigits(text, k + 2, 14)
      THEN k + 16 ELSE Undefined,
      IF /\ CharAt(text, k) = "3"
         /\ CharAt(text, k + 1) \in {"4", "7"}
         /\ AllDigits(text, k + 2, 13)
      THEN k + 15 ELSE Undefined,
      IF CharAt(text, k) = "3" /\ AllDigits(text, k + 1, 13) THEN k + 14 ELSE Undefined,
      IF /\ CharAt(text, k) = "6"
         /\ \/ /\ CharAt(text, k + 1) = "0"
               /\ CharAt(text, k + 2) = "1"
               /\ CharAt(text, k + 3) = "1"
            \/ CharAt(text, k + 1) = "5" /\ AllDigits(text, k + 2, 2)
         /\ AllDigits(text, k + 4, 12)
      THEN k + 16 ELSE Undefined>>

\* the first of ends that is followed by \b, or Undefined
FirstBoundedEnd(text, ends) ==
    IF \E i \in 1..Len(ends) : ends[i] # Undefined /\ WordBoundary(text, ends[i])
    THEN ends[CHOOSE i \in 1..Len(ends) :
                /\ ends[i] # Undefined /\ WordBoundary(text, ends[i])
                /\ \A j \in 1..(i - 1) :
                      ends[j] = Undefined \/ ~WordBoundary(text, ends[j])]
    ELSE Undefined

\* /\b(?:4[0-9]{12}(?:[0-9]{3})?|5[1-5][0-9]{14}|...)\b/ tried at offset k
CardMatchEnd(text, k) ==
    IF WordBoundary(text, k) THEN FirstBoundedEnd(text, CardAlternatives(text, k))
    ELSE Undefined

\* [\s.-]? at offset k: the offset after it.  The separator is taken when it
\* is there: what follows is a digit, which the separator is not.
AfterPhoneSeparator(text, k) == IF CharAt(text, k) \in {" ", ".", "-"} THEN k + 1 ELSE k

\* \d{3}[\s.-]?\d{4}\b from offset k
PhoneTailEnd(text, k, l) ==
    IF AllDigits(text, k, 3) /\ AllDigits(text, l, 4) /\ WordBoundary(text, l + 4)
    THEN l + 4
    ELSE Undefined

\* /\b(\+\d{1,3}[\s-]?)?\(?\d{3}\)?[\s.-]?\d{3}[\s.-]?\d{4}\b/ tried at
\* offset k, for a text without "+", "(" and ")": the optional country code
\* and the optional parentheses match nothing
PhoneMatchEnd(text, k) ==
    IF WordBoundary(text, k) /\ AllDigits(text, k, 3)
    THEN PhoneTailEnd(text, AfterPhoneSeparator(text, k + 3),
                      AfterPhoneSeparator(text, AfterPhoneSeparator(text, k + 3) + 3))
    ELSE Undefined

\* cardNumber.replace(/\D/g, '')
StripNonDigits(value) == SelectSeq(value, LAMBDA c : c \in Digits)

\* parseInt(digits[i]) of a digit
ParseInt(c) == CHOOSE d \in 0..9 : <<"0", "1", "2", "3", "4", "5", "6", "7", "8", "9">>[d + 1] = c

\* the loop of luhnCheck: digit is doubled when isEven, and reduced by 9 when
\* the doubled digit exceeds 9
LuhnDigit(d, isEven) == IF ~isEven THEN d ELSE IF 2 * d > 9 THEN 2 * d - 9 ELSE 2 * d

\* sum after the loop for (let i = digits.length - 1; i >= 0; i--) has run
\* from i down to 0 (digits[i] is digits[i + 1] here)
RECURSIVE LuhnSumFrom(_, _, _)
LuhnSumFrom(digits, i, isEven) ==
    IF i < 0 THEN 0
    ELSE LuhnDigit(ParseInt(digits[i + 1]), isEven) + LuhnSumFrom(digits, i - 1, ~isEven)

\* luhnCheck with isEven starting true: the rightmost digit is doubled
LuhnOfDigitsDoubleFirst(digits) ==
    IF Len(digits) < 13 \/ Len(digits) > 19 THEN FALSE
    ELSE LuhnSumFrom(digits, Len(digits) - 1, TRUE) % 10 = 0

\* the length test of luhnCheck and the test of the sum after its loop
LuhnOfDigits(digits) ==
    IF Len(digits) < 13 \/ Len(digits) > 19 THEN FALSE
    ELSE LuhnSumFrom(digits, Len(digits) - 1, FALSE) % 10 = 0

\* luhnCheck(cardNumber)
luhnCheck(cardNumber) == LuhnOfDigits(StripNonDigits(cardNumber))

\* new RegExp(pattern, 'gi') of a custom pattern whose source is a literal
\* string (every metacharacter escaped), tried at offset k; the literal may
\* be empty (new RegExp('', 'gi') matches the empty string at every offset)
LiteralMatchEnd(chars, text, k) ==
    IF /\ k + Len(chars) <= Len(text)
       /\ \A i \in 1..Len(chars) : Lower(CharAt(text, k + i - 1)) = Lower(chars[i])
    THEN k + Len(chars)
    ELSE Undefined

\* {20,} of the API_KEY pattern
MinApiKeyChars == 20

\* ["\s:=] and [a-zA-Z0-9_\-] of the API_KEY pattern
ApiKeySeparators == {"\"", " ", "\t", "\n", "\r", ":", "="}

ApiKeyChars == Letters \cup Digits \cup {"_", "-"}

\* the end of (?:api[_-]?key|apikey) tried at offset k under the i flag, or
\* Undefined
ApiKeyLabelEnd(text, k) ==
    IF <<Lower(CharAt(text, k)), Lower(CharAt(text, k + 1)), Lower(CharAt(text, k + 2))>>
           # <<"a", "p", "i">>
    THEN Undefined
    ELSE LET j == IF CharAt(text, k + 3) \in {"_", "-"} THEN k + 4 ELSE k + 3
         IN  IF <<Lower(CharAt(text, j)), Lower(CharAt(text, j + 1)),
                  Lower(CharAt(text, j + 2))>> = <<"k", "e", "y">>
             THEN j + 3 ELSE Undefined

\* /(?:api[_-]?key|apikey)["\s:=]+["']?([a-zA-Z0-9_\-]{20,})["']?/gi tried at
\* offset k: the end of the match, or Undefined.  The separators, the quotes
\* other than the double quote and the key characters are disjoint classes,
\* so the greedy runs are the only way to match.
ApiKeyMatchEnd(text, k) ==
    LET label == ApiKeyLabelEnd(text, k)
    IN  IF label = Undefined THEN Undefined
        ELSE LET sep   == RunEnd(text, label, ApiKeySeparators)
                 open  == IF CharAt(text, sep) = "'" THEN sep + 1 ELSE sep
                 key   == RunEnd(text, open, ApiKeyChars)
                 close == IF CharAt(text, key) \in {"\"", "'"} THEN key + 1 ELSE key
             IN  IF sep > label /\ key - open >= MinApiKeyChars THEN close
                 ELSE Undefined

\* text holds the characters chars at offset k
LiteralAt(text, k, chars) ==
    /\ k + Len(chars) <= Len(text)
    /\ \A i \in 1..Len(chars) : text[k + i] = chars[i]

\* [0-9A-Z]
AwsKeyChars == Digits \cup UpperChars

\* /AKIA[0-9A-Z]{16}/ tried at offset k: the end of the match, or Undefined
AwsKeyMatchEnd(text, k) ==
    IF /\ LiteralAt(text, k, <<"A", "K", "I", "A">>)
       /\ \A i \in (k + 4)..(k + 19) : CharAt(text, i) \in AwsKeyChars
    THEN k + 20
    ELSE Undefined

S_BEGIN == <<"-", "-", "-", "-", "-", "B", "E", "G", "I", "N", " ">>
S_END == <<"-", "-", "-", "-", "-", "E", "N", "D", " ">>
S_PRIVATE_KEY == <<"P", "R", "I", "V", "A", "T", "E", " ", "K", "E", "Y", "-", "-", "-", "-", "-">>

\* (?:RSA |EC |DSA |OPENSSH )
KeyAlgorithms ==
    {<<"R", "S", "A", " ">>, <<"E", "C", " ">>, <<"D", "S", "A", " ">>,
     <<"O", "P", "E", "N", "S", "S", "H", " ">>}

\* [A-Za-z0-9+\/=\s\n\r]
PrivateKeyBodyChars == Letters \cup Digits \cup {"+", "/", "=", " ", "\t", "\n", "\r"}

\* (?:RSA |EC |DSA |OPENSSH )?PRIVATE KEY----- from offset k: the offset after
\* it, or Undefined.  No algorithm starts as "PRIVATE KEY-----" does, so the
\* optional group is taken when it is there.
PrivateKeyLineEnd(text, k) ==
    LET j == IF \E a \in KeyAlgorithms : LiteralAt(text, k, a)
             THEN k + Len(CHOOSE a \in KeyAlgorithms : LiteralAt(text, k, a))
             ELSE k
    IN  IF LiteralAt(text, j, S_PRIVATE_KEY) THEN j + Len(S_PRIVATE_KEY) ELSE Undefined

\* /-----BEGIN (...)?PRIVATE KEY-----[A-Za-z0-9+\/=\s\n\r]+-----END
\* (...)?PRIVATE KEY-----/ tried at offset k.  The body cannot hold a "-", so
\* its greedy run is the only way to reach "-----END".
PrivateKeyMatchEnd(text, k) ==
    LET head == IF LiteralAt(text, k, S_BEGIN)
                THEN PrivateKeyLineEnd(text, k + Len(S_BEGIN)) ELSE Undefined
    IN  IF head = Undefined THEN Undefined
        ELSE LET body == RunEnd(text, head, PrivateKeyBodyChars)
             IN  IF body > head /\ LiteralAt(text, body, S_END)
                 THEN PrivateKeyLineEnd(text, body + Len(S_END))
                 ELSE Undefined

\* whether new RegExp(pattern, 'gi') returns (a source such as "(" throws a
\* SyntaxError)
RegExpCompiles(pattern) == pattern.kind # "invalid"

\* a compiled regular expression tried at offset k.  A regex is
\* [kind |-> "card"], [kind |-> "ssn"], [kind |-> "email"], [kind |-> "phone"],
\* [kind |-> "apikey"], [kind |-> "awskey"], [kind |-> "privatekey"] or
\* [kind |-> "literal", chars |-> ...].
MatchEndAt(regex, text, k) ==
    CASE regex.kind = "card"    -> CardMatchEnd(text, k)
      [] regex.kind = "ssn"     -> SsnMatchEnd(text, k)
      [] regex.kind = "email"   -> EmailMatchEnd(text, k)
      [] regex.kind = "phone"   -> PhoneMatchEnd(text, k)
      [] regex.kind = "apikey"  -> ApiKeyMatchEnd(text, k)
      [] regex.kind = "awskey"  -> AwsKeyMatchEnd(text, k)
      [] regex.kind = "privatekey" -> PrivateKeyMatchEnd(text, k)
      [] regex.kind = "literal" -> LiteralMatchEnd(regex.chars, text, k)

\* text.matchAll(regex): the matches [index, end] from offset from on, each
\* the leftmost one that starts at or after the end of the one before it;
\* after an empty match the search goes on one offset further
\* (AdvanceStringIndex).  MatchStep is one attempt at offset k, which ended at
\* e or failed.
RECURSIVE MatchAllFrom(_, _, _)
RECURSIVE MatchStep(_, _, _, _)
MatchStep(regex, text, k, e) ==
    IF e = Undefined
    THEN MatchAllFrom(regex, text, k + 1)
    ELSE <<[index |-> k, end |-> e]>>
            \o MatchAllFrom(regex, text, IF e = k THEN e + 1 ELSE e)

MatchAllFrom(regex, text, from) ==
    IF from > Len(text) THEN <<>>
    ELSE MatchStep(regex, text, from, MatchEndAt(regex, text, from))

MatchAll(regex, text) == MatchAllFrom(regex, text, 0)

\* regex.test(value) of a regex without lastIndex state
Test(regex, value) == MatchAll(regex, value) # <<>>

\* BUILT_IN_PATTERNS, in order, restricted to the patterns that can match a
\* text of the model (see Texts, ShapeTexts, KeyTexts and RedactTexts): the
\* other eleven need a keyword ("MRN", "Account", "CVV", "Passport", ...), a
\* track separator, two capitals and two digits after a word boundary, or
\* digit-dot-digit groups, none of which a text of the model holds.  Only
\* CREDIT_CARD has a validate function.
BUILT_IN_PATTERNS ==
    <<[type |-> "CREDIT_CARD", regex |-> [kind |-> "card"],  validate |-> TRUE],
      [type |-> "SSN",         regex |-> [kind |-> "ssn"],   validate |-> FALSE],
      [type |-> "EMAIL",       regex |-> [kind |-> "email"], validate |-> FALSE],
      [type |-> "PHONE",       regex |-> [kind |-> "phone"], validate |-> FALSE],
      [type |-> "API_KEY",     regex |-> [kind |-> "apikey"], validate |-> FALSE],
      [type |-> "AWS_KEY",     regex |-> [kind |-> "awskey"], validate |-> FALSE],
      [type |-> "PRIVATE_KEY", regex |-> [kind |-> "privatekey"], validate |-> FALSE]>>

\* the CREDIT_CARD shape check without luhnCheck
CardTypeOfNoLuhn(value) ==
    IF Test([kind |-> "card"], value) THEN "CREDIT_CARD" ELSE "null"

\* the shape checks of detectPiiType after the PHONE check: CREDIT_CARD with
\* luhnCheck(value); the AWS_KEY and PRIVATE_KEY checks accept no value of the
\* model
CardTypeOf(value) ==
    IF Test([kind |-> "card"], value) /\ luhnCheck(value) THEN "CREDIT_CARD" ELSE "null"

\* the shape checks with the EMAIL check before the SSN check
detectPiiTypeEmailFirst(value) ==
    IF Test([kind |-> "email"], value) THEN "EMAIL"
    ELSE IF Test([kind |-> "ssn"], value) THEN "SSN"
    ELSE IF Test([kind |-> "phone"], value) THEN "PHONE"
    ELSE CardTypeOf(value)

\* detectPiiType(value): the shape checks, in order; none when no check
\* accepts
detectPiiType(value) ==
    IF Test([kind |-> "ssn"], value) THEN "SSN"
    ELSE IF Test([kind |-> "email"], value) THEN "EMAIL"
    ELSE IF Test([kind |-> "phone"], value) THEN "PHONE"
    ELSE CardTypeOf(value)

\* is_active as the API may send it: a boolean, a number or a string
IsActive(p) ==
    CASE p.is_active.t = "boolean" -> p.is_active.b
      [] p.is_active.t = "number"  -> p.is_active.n = 1
      [] p.is_active.t = "string"  ->
            \/ p.is_active.s = <<"1">>
            \/ LowerAll(p.is_active.s) = <<"t", "r", "u", "e">>
      [] OTHER -> FALSE

\* setCustomPatterns(patterns): the new value of customPatterns.  The loop
\* that test-compiles each pattern only logs.
SetCustomPatterns(patterns) == SelectSeq(patterns, IsActive)

\* the built-in loop with end the offset of the last character of the match
BuiltInPushedEndInclusive(type, text, ms) ==
    [i \in 1..Len(ms) |->
        [type        |-> type,
         value       |-> Substring(text, ms[i].index, ms[i].end),
         start       |-> ms[i].index,
         end         |-> IF ms[i].index # 0 THEN ms[i].end - 1 ELSE Undefined,
         confidence  |-> Undefined,
         patternName |-> "undefined"]]

\* the built-in loop of detectPii for one pattern: a detection per match
\* (end is undefined when match.index is 0, which is falsy)
BuiltInPushed(type, text, ms) ==
    [i \in 1..Len(ms) |->
        [type        |-> type,
         value       |-> Substring(text, ms[i].index, ms[i].end),
         start       |-> ms[i].index,
         end         |-> IF ms[i].index # 0 THEN ms[i].end ELSE Undefined,
         confidence  |-> Undefined,
         patternName |-> "undefined"]]

\* the clone text.matchAll(pattern.regex) iterates starts at the lastIndex of
\* pattern.regex; a match the validate function rejects is skipped
BuiltInDetections(pattern, text) ==
    BuiltInPushed(pattern.type, text,
        SelectSeq(MatchAllFrom(pattern.regex, text, regexLastIndex[pattern.type]),
                  LAMBDA m : pattern.validate
                                => luhnCheck(Substring(text, m.index, m.end))))

RECURSIVE BuiltInResultsFrom(_, _)
BuiltInResultsFrom(i, text) ==
    IF i > Len(BUILT_IN_PATTERNS) THEN <<>>
    ELSE BuiltInDetections(BUILT_IN_PATTERNS[i], text) \o BuiltInResultsFrom(i + 1, text)

\* builtInResults after the first loop of detectPii
BuiltInResults(text) == BuiltInResultsFrom(1, text)

\* alreadyDetected / isDuplicate: a built-in detection with the same value,
\* start and end
CoincidesWithBuiltIn(builtIn, value, start, end) ==
    \E i \in 1..Len(builtIn) :
        /\ builtIn[i].value = value
        /\ builtIn[i].start = start
        /\ builtIn[i].end = end

\* the type of a custom detection with every label treated as generic
NormalizedTypeOfAllGeneric(pattern_type, detectedType) ==
    IF detectedType # "null" THEN detectedType ELSE "CUSTOM"

\* the type of a custom detection: the shape's type when a shape check
\* accepts, CUSTOM for a generic label, otherwise the declared label
NormalizedTypeOf(pattern_type, detectedType) ==
    IF detectedType # "null" THEN detectedType
    ELSE IF pattern_type \in {"CUSTOM", "REGEX", ""} THEN "CUSTOM"
    ELSE pattern_type

NormalizedType(pattern_type, value) ==
    NormalizedTypeOf(pattern_type, detectPiiType(value))

\* the body of the try block for one custom pattern that compiles
CustomPushed(p, text, keep) ==
    [i \in 1..Len(keep) |->
        [type        |-> NormalizedType(p.pattern_type,
                                        Substring(text, keep[i].index, keep[i].end)),
         value       |-> Substring(text, keep[i].index, keep[i].end),
         start       |-> keep[i].index,
         end         |-> keep[i].end,
         confidence  |-> 90,
         patternName |-> p.name]]

CustomDetections(p, text, builtIn) ==
    CustomPushed(p, text,
        SelectSeq(MatchAll(p.pattern, text), LAMBDA m :
            ~CoincidesWithBuiltIn(builtIn, Substring(text, m.index, m.end),
                                  m.index, m.end)))

\* the custom loop with the try block around the whole loop: the first
\* pattern that throws ends it
RECURSIVE CustomResultsAbortOnThrow(_, _, _)
CustomResultsAbortOnThrow(patterns, text, builtIn) ==
    IF patterns = <<>> THEN <<>>
    ELSE IF ~RegExpCompiles(Head(patterns).pattern) THEN <<>>
    ELSE CustomDetections(Head(patterns), text, builtIn)
            \o CustomResultsAbortOnThrow(Tail(patterns), text, builtIn)

\* the custom loop of detectPii: each pattern in its own try/catch, so a
\* pattern whose RegExp throws adds nothing and the loop goes on
RECURSIVE CustomResults(_, _, _)
CustomResults(patterns, text, builtIn) ==
    IF patterns = <<>> THEN <<>>
    ELSE IF ~RegExpCompiles(Head(patterns).pattern)
         THEN CustomResults(Tail(patterns), text, builtIn)
         ELSE CustomDetections(Head(patterns), text, builtIn)
                 \o CustomResults(Tail(patterns), text, builtIn)

\* `${result.value}:${result.start}:${result.end}`
DedupKey(r) == <<r.value, r.start, r.end>>

\* isBuiltInDetection(result)
isBuiltInDetection(builtIn, r) ==
    \E i \in 1..Len(builtIn) :
        /\ builtIn[i].value = r.value
        /\ builtIn[i].start = r.start
        /\ builtIn[i].end = r.end
        /\ builtIn[i].type = r.type

\* the final loops without the set of keys already pushed
RECURSIVE UniqueFromKeepAll(_, _, _, _, _)
UniqueFromKeepAll(results, i, builtIn, firstLoop, seen) ==
    IF i > Len(results) THEN [out |-> <<>>, seen |-> seen]
    ELSE IF firstLoop = isBuiltInDetection(builtIn, results[i])
         THEN [out  |-> <<results[i]>> \o
                          UniqueFromKeepAll(results, i + 1, builtIn, firstLoop, seen).out,
               seen |-> seen]
         ELSE UniqueFromKeepAll(results, i + 1, builtIn, firstLoop, seen)

\* one of the two final loops of detectPii over results[i..]: wanted(r) selects
\* the loop's results, seen holds the keys already pushed
RECURSIVE UniqueFrom(_, _, _, _, _)
UniqueFrom(results, i, builtIn, firstLoop, seen) ==
    IF i > Len(results) THEN [out |-> <<>>, seen |-> seen]
    ELSE LET r    == results[i]
             take == IF firstLoop
                     THEN isBuiltInDetection(builtIn, r) /\ DedupKey(r) \notin seen
                     ELSE /\ ~isBuiltInDetection(builtIn, r)
                          /\ ~CoincidesWithBuiltIn(builtIn, r.value, r.start, r.end)
                          /\ DedupKey(r) \notin seen
             rest == UniqueFrom(results, i + 1, builtIn, firstLoop,
                                IF take THEN seen \cup {DedupKey(r)} ELSE seen)
         IN  [out  |-> IF take THEN <<r>> \o rest.out ELSE rest.out,
              seen |-> rest.seen]

\* detectPii(text) with the module's customPatterns being patterns
UniqueAfter(results, builtIn, first) ==
    first.out \o UniqueFrom(results, 1, builtIn, FALSE, first.seen).out

UniqueResults(results, builtIn) ==
    UniqueAfter(results, builtIn, UniqueFrom(results, 1, builtIn, TRUE, {}))

DetectWith(text, patterns, builtIn) ==
    UniqueResults(builtIn \o CustomResults(patterns, text, builtIn), builtIn)

detectPii(text, patterns) ==
    IF Len(text) = 0 THEN <<>>
    ELSE DetectWith(text, patterns, BuiltInResults(text))

(***************************************************************************)
(* Inputs of the detector: texts and custom-pattern lists.                 *)
(***************************************************************************)
S_SSN == <<"1", "2", "3", "-", "4", "5", "-", "6", "7", "8", "9">>
S_EMP == <<"E", "M", "P", "-", "7">>
S_EMAIL == <<"a", "@", "b", ".", "c", "o">>
S_SPACE == <<" ">>

Segments == {S_SSN, S_EMP, S_EMAIL, S_SPACE}

\* the characters of the model's texts
TextChars == UNION {Range(seg) : seg \in Segments}

RECURSIVE Flatten(_)
Flatten(segs) == IF segs = <<>> THEN <<>> ELSE Head(segs) \o Flatten(Tail(segs))

\* the texts detectPii is called with: up to MaxSegments segments
Texts == {Flatten(segs) : segs \in UNION {[1..n -> Segments] : n \in 0..MaxSegments}}

\* custom patterns as getPatterns returns them
P_SSN ==
    [id |-> "p1", name |-> "badge", pattern |-> [kind |-> "literal", chars |-> S_SSN],
     pattern_type |-> "EMPLOYEE_ID", is_active |-> [t |-> "boolean", b |-> TRUE]]
P_EMP ==
    [id |-> "p2", name |-> "emp",
     pattern |-> [kind |-> "literal", chars |-> <<"e", "m", "p", "-", "7">>],
     pattern_type |-> "CUSTOM", is_active |-> [t |-> "number", n |-> 1]]
P_BAD ==
    [id |-> "p3", name |-> "broken", pattern |-> [kind |-> "invalid"],
     pattern_type |-> "REGEX", is_active |-> [t |-> "string", s |-> <<"T", "R", "U", "E">>]]
P_OFF ==
    [id |-> "p4", name |-> "off", pattern |-> [kind |-> "literal", chars |-> S_EMAIL],
     pattern_type |-> "EMAIL", is_active |-> [t |-> "number", n |-> 0]]

PatternPool == {P_SSN, P_EMP, P_BAD, P_OFF}

PatternLists == UNION {[1..n -> PatternPool] : n \in 0..MaxListLen}

(***************************************************************************)
(* Inputs of the detector for the shape checks: card numbers, separated    *)
(* card numbers, a phone number, and custom patterns with every kind of    *)
(* label.                                                                  *)
(***************************************************************************)
\* the leading digits of the card numbers of every length: a prefix the
\* CREDIT_CARD regex has an alternative for, and a JCB prefix
CardPrefixes == {<<"4">>, <<"3", "5">>}

\* the digits that follow the prefix
CardFiller == <<"7", "0", "9", "5", "2", "8", "1", "6", "3", "4", "7", "0", "9", "5", "2", "8", "1", "6", "3">>

\* the sum of the Luhn checksum of digits: the digit at position p from the
\* right (1 the rightmost) counts as it is when p is odd, and doubled, less
\* 9 when the doubled digit exceeds 9, when p is even
RECURSIVE SumOver(_, _)
SumOver(f, S) == IF S = {} THEN 0 ELSE f[Max(S)] + SumOver(f, S \ {Max(S)})

LuhnTotal(digits) ==
    SumOver([p \in 1..Len(digits) |->
                IF p % 2 = 1 THEN ParseInt(digits[Len(digits) + 1 - p])
                ELSE IF 2 * ParseInt(digits[Len(digits) + 1 - p]) > 9
                     THEN 2 * ParseInt(digits[Len(digits) + 1 - p]) - 9
                     ELSE 2 * ParseInt(digits[Len(digits) + 1 - p])],
            1..Len(digits))

DigitChar(d) == <<"0", "1", "2", "3", "4", "5", "6", "7", "8", "9">>[d + 1]

\* body followed by the check digit that makes the Luhn total a multiple of 10
WithCheckDigit(body) ==
    Append(body, DigitChar(CHOOSE d \in 0..9 :
                              LuhnTotal(Append(body, DigitChar(d))) % 10 = 0))

\* body followed by a digit that is not the check digit
WithWrongDigit(body) ==
    Append(body, DigitChar(CHOOSE d \in 0..9 :
                              LuhnTotal(Append(body, DigitChar(d))) % 10 = 1))

CardBody(prefix, n) == prefix \o SubSeq(CardFiller, 1, n - 1 - Len(prefix))

\* Luhn-valid digit sequences of every length, and one for each of the other
\* alternatives of the CREDIT_CARD regex
ValidNumbers ==
    {WithCheckDigit(CardBody(prefix, n)) :
        prefix \in CardPrefixes, n \in MinCardDigits..MaxCardDigits}
        \cup {WithCheckDigit(CardBody(<<"5", "1">>, 16)),
              WithCheckDigit(CardBody(<<"3", "7">>, 15)),
              WithCheckDigit(CardBody(<<"3", "0">>, 14)),
              WithCheckDigit(CardBody(<<"6", "0", "1", "1">>, 16)),
              WithCheckDigit(CardBody(<<"6", "5">>, 16))}

\* digit sequences of the shape of a card number that fail the Luhn check
InvalidNumbers ==
    {WithWrongDigit(CardBody(prefix, 16)) : prefix \in {<<"4">>, <<"5", "1">>}}

N_VISA == <<"4", "2", "4", "2", "4", "2", "4", "2", "4", "2", "4", "2", "4", "2", "4", "2">>
N_JCB == <<"3", "5", "3", "0", "1", "1", "1", "3", "3", "3", "3", "0", "0", "0", "0", "0">>
N_BAD == <<"4", "2", "4", "2", "4", "2", "4", "2", "4", "2", "4", "2", "4", "2", "4", "1">>
S_VISA_SPACED == <<"4", "2", "4", "2", " ", "4", "2", "4", "2", " ", "4", "2", "4", "2", " ", "4", "2", "4", "2">>
S_AMEX_SPACED == <<"3", "7", "8", "2", " ", "8", "2", "2", "4", " ", "6", "3", "1", "0", " ", "0", "0", "5">>
S_PHONE == <<"5", "5", "5", "-", "1", "2", "3", "-", "4", "5", "6", "7">>
S_X == <<"x">>

\* the texts of the shape checks
ShapeTexts ==
    ValidNumbers \cup InvalidNumbers
        \cup {N_VISA, N_JCB, N_BAD, S_VISA_SPACED, S_AMEX_SPACED, S_PHONE,
              S_X \o S_SPACE \o N_VISA, N_VISA \o S_X, S_PHONE \o S_SPACE \o N_VISA,
              S_EMP, S_SSN, S_SPACE \o S_SSN, S_EMAIL \o S_SPACE \o S_SSN,
              S_EMP \o S_SPACE \o S_SSN}

Pattern(name, chars, pattern_type) ==
    [id |-> name, name |-> name, pattern |-> [kind |-> "literal", chars |-> chars],
     pattern_type |-> pattern_type, is_active |-> [t |-> "boolean", b |-> TRUE]]

\* custom patterns for "EMP-7" with an unset, a generic and a specific label
P_UNSET == Pattern("unset", S_EMP, "")
P_REGEX == Pattern("regex", <<"e", "m", "p">>, "REGEX")
P_ID == Pattern("id", S_EMP, "EMPLOYEE_ID")
\* custom patterns whose matches pass a shape check, or two
P_BOTH == Pattern("both", S_EMAIL \o S_SPACE \o S_SSN, "EMAIL")
P_CALL == Pattern("call", S_PHONE \o S_SPACE \o N_VISA, "CUSTOM")
P_VISA == Pattern("visa", N_VISA, "REGEX")
\* custom patterns for a card-shaped number that fails the Luhn check
P_BADNUM == Pattern("badnum", N_BAD, "CUSTOM")
P_BADCARD == Pattern("badcard", N_BAD, "CREDIT_CARD")
\* a custom pattern that matches the empty string
P_EMPTY == Pattern("empty", <<>>, "CUSTOM")

\* the lists getPatterns returns for the shape checks
ShapePatternLists ==
    {<<p>> : p \in {P_EMP, P_UNSET, P_REGEX, P_ID, P_SSN, P_BOTH, P_CALL, P_VISA,
                    P_BADNUM, P_BADCARD, P_EMPTY}}
        \cup {<<P_ID, P_ID>>, <<P_ID, P_EMP>>, <<P_EMP, P_ID>>, <<P_ID, P_REGEX>>,
              <<P_BAD, P_VISA>>}

(***************************************************************************)
(* The custom-pattern registry of the content script and calls of          *)
(* detectPii.                                                              *)
(***************************************************************************)
scanHistory == <<scanText, scanPatterns, scanResult>>

\* the auth page stores a token: storage.onChanged runs initializeApiClient
\* and initializeCustomPatterns, which awaits getPatterns
AuthTokenChanged ==
    /\ UNCHANGED uiVars
    /\ realm = "content"
    /\ fetches < MaxFetches
    /\ hasToken' = TRUE
    /\ cApiClient' = TRUE
    /\ fetches' = fetches + 1
    /\ lastCall' = "cClient"
    /\ UNCHANGED <<cQueue, cProcessing, cDeliveries, cHanded, cFailed, bgVars,
                   nextItem, failures, realm>>
    /\ UNCHANGED <<customPatterns, lastObtained, lastRegistered, regexLastIndex,
                   scanHistory, mergeLog>>

\* main() calls initializeCustomPatterns: without a token it returns, with
\* one it calls initializeApiClient and awaits getPatterns
InitialLoad ==
    /\ UNCHANGED uiVars
    /\ realm = "content"
    /\ fetches < MaxFetches
    /\ cApiClient' = (cApiClient \/ hasToken)
    /\ fetches' = IF hasToken THEN fetches + 1 ELSE fetches
    /\ lastCall' = "cLoad"
    /\ UNCHANGED <<cQueue, cProcessing, cDeliveries, cHanded, cFailed, bgVars,
                   nextItem, failures, realm>>
    /\ UNCHANGED <<hasToken, customPatterns, lastObtained, lastRegistered,
                   regexLastIndex, scanHistory, mergeLog>>

\* getPatterns resolves with patterns: setCustomPatterns is called only for a
\* list that is not empty
GetPatternsResolved(patterns) ==
    /\ UNCHANGED uiVars
    /\ realm = "content"
    /\ fetches > 0
    /\ fetches' = fetches - 1
    /\ lastObtained' = patterns
    /\ customPatterns' = IF Len(patterns) > 0 THEN SetCustomPatterns(patterns)
                         ELSE customPatterns
    /\ lastRegistered' = IF Len(patterns) > 0 THEN patterns ELSE lastRegistered
    /\ scanText' = <<>> /\ scanPatterns' = <<>> /\ scanResult' = <<>>
    /\ lastCall' = "cPatterns"
    /\ UNCHANGED <<cApiClient, cQueue, cProcessing, cDeliveries, cHanded, cFailed,
                   bgVars, nextItem, failures, realm, hasToken, regexLastIndex,
                   mergeLog>>

\* history: no merge yet
NoMerge == [merged |-> FALSE]

\* a pattern of a team policy in the format of CustomPattern: is_active is
\* true whatever the policy says
TeamPattern(pattern) ==
    [id |-> pattern.id, name |-> pattern.name, pattern |-> pattern.pattern,
     pattern_type |-> pattern.pattern_type, is_active |-> [t |-> "boolean", b |-> TRUE]]

\* allTeamPatterns: the patterns of the enabled policies that have
\* policy_data with a patterns array, in the order of the policies
RECURSIVE AllTeamPatterns(_)
AllTeamPatterns(policies) ==
    IF policies = <<>> THEN <<>>
    ELSE (IF Head(policies).enabled /\ Head(policies).hasPatterns
          THEN [i \in 1..Len(Head(policies).patterns) |->
                    TeamPattern(Head(policies).patterns[i])]
          ELSE <<>>)
         \o AllTeamPatterns(Tail(policies))

\* the pattern a Map built from the entries [p.id, p] holds for id: a later
\* entry with the same key replaces the value of an earlier one
MapGet(allPatterns, id) ==
    allPatterns[CHOOSE i \in 1..Len(allPatterns) :
                    /\ allPatterns[i].id = id
                    /\ \A j \in (i + 1)..Len(allPatterns) : allPatterns[j].id # id]

\* Array.from(new Map(allPatterns.map(p => [p.id, p])).values()): the keys
\* keep the order in which they were first inserted
UniquePatterns(allPatterns) ==
    LET firsts == SelectSeq([i \in 1..Len(allPatterns) |->
                                [i |-> i, id |-> allPatterns[i].id]],
                            LAMBDA e : \A j \in 1..(e.i - 1) : allPatterns[j].id # e.id)
    IN  [k \in 1..Len(firsts) |-> MapGet(allPatterns, firsts[k].id)]

\* getPatterns, getTeams and every getTeamPolicies of initializeCustomPatterns
\* have resolved: the team patterns are extracted, appended to the personal
\* ones and deduplicated by id, and setCustomPatterns is called for a list
\* that is not empty
TeamPoliciesResolved(personalPatterns, policies) ==
    /\ UNCHANGED uiVars
    /\ realm = "content"
    /\ fetches > 0
    /\ fetches' = fetches - 1
    /\ mergeLog' = [merged   |-> TRUE,
                    personal |-> personalPatterns,
                    team     |-> AllTeamPatterns(policies),
                    unique   |-> UniquePatterns(personalPatterns
                                                   \o AllTeamPatterns(policies))]
    /\ lastObtained' = personalPatterns
    /\ customPatterns' = IF Len(mergeLog'.unique) > 0
                         THEN SetCustomPatterns(mergeLog'.unique)
                         ELSE customPatterns
    /\ lastRegistered' = IF Len(mergeLog'.unique) > 0 THEN mergeLog'.unique
                         ELSE lastRegistered
    /\ scanText' = <<>> /\ scanPatterns' = <<>> /\ scanResult' = <<>>
    /\ lastCall' = "cMerged"
    /\ UNCHANGED <<cApiClient, cQueue, cProcessing, cDeliveries, cHanded, cFailed,
                   bgVars, nextItem, failures, realm, hasToken, regexLastIndex>>

\* getPatterns rejects: the catch block logs
GetPatternsRejected ==
    /\ UNCHANGED uiVars
    /\ realm = "content"
    /\ fetches > 0
    /\ fetches' = fetches - 1
    /\ lastCall' = "cPatternsFailed"
    /\ UNCHANGED <<cApiClient, cQueue, cProcessing, cDeliveries, cHanded, cFailed,
                   bgVars, nextItem, failures, realm>>
    /\ UNCHANGED <<hasToken, customPatterns, lastObtained, lastRegistered,
                   regexLastIndex, scanHistory, mergeLog>>

\* the lastIndex of the built-in regexes after detectPii(text):
\* text.matchAll(pattern.regex) iterates a clone, and the regex itself is
\* left as it was
LastIndexAfterMatchAllShared(lastIndex, text) ==
    [t \in DOMAIN lastIndex |->
        IF \E i \in 1..Len(BUILT_IN_PATTERNS) :
              /\ BUILT_IN_PATTERNS[i].type = t
              /\ MatchAllFrom(BUILT_IN_PATTERNS[i].regex, text, lastIndex[t]) # <<>>
        THEN Len(text)
        ELSE 0]

LastIndexAfterMatchAll(lastIndex, text) == lastIndex

\* a handler calls detectPii(text); history: lastCall tells a call that
\* repeats the call before it, with the same text and the same customPatterns
DetectPiiCall(text) ==
    /\ UNCHANGED uiVars
    /\ realm = "content"
    /\ scanText' = text
    /\ scanPatterns' = customPatterns
    /\ scanResult' = detectPii(text, customPatterns)
    /\ regexLastIndex' = LastIndexAfterMatchAll(regexLastIndex, text)
    /\ lastCall' = IF /\ lastCall \in {"cScan", "cScanAgain"}
                      /\ scanText = text
                      /\ scanPatterns = customPatterns
                   THEN "cScanAgain"
                   ELSE "cScan"
    /\ UNCHANGED <<cApiClient, cQueue, cProcessing, cDeliveries, cHanded, cFailed,
                   bgVars, nextItem, failures, realm>>
    /\ UNCHANGED <<hasToken, customPatterns, fetches, lastObtained, lastRegistered,
                   mergeLog>>

InitDetect ==
    /\ hasToken \in BOOLEAN
    /\ regexLastIndex =
          [t \in {BUILT_IN_PATTERNS[i].type : i \in 1..Len(BUILT_IN_PATTERNS)} |-> 0]
    /\ customPatterns = <<>>
    /\ fetches = 0
    /\ lastObtained = <<>>
    /\ mergeLog = NoMerge
    /\ lastRegistered = <<>>
    /\ scanText = <<>> /\ scanPatterns = <<>> /\ scanResult = <<>>

(***************************************************************************)
(* The remote scan of the content script: texts, the scan gate of          *)
(* performAiScan and the key of aiScanCache.                               *)
(***************************************************************************)
Null == "null"

\* the ASCII characters of codes 32 to 95 and 123 to 126, in the order of
\* their codes (the lower-case letters are LowerSeq)
Ascii32 ==
    <<" ", "!", "\"", "#", "$", "%", "&", "'", "(", ")", "*", "+", ",", "-", ".", "/",
      "0", "1", "2", "3", "4", "5", "6", "7", "8", "9", ":", ";", "<", "=", ">", "?",
      "@", "A", "B", "C", "D", "E", "F", "G", "H", "I", "J", "K", "L", "M", "N", "O",
      "P", "Q", "R", "S", "T", "U", "V", "W", "X", "Y", "Z", "[", "\\", "]", "^", "_">>

Ascii123 == <<"{", "|", "}", "~">>

IndexOf(c, chars) == CHOOSE i \in 1..Len(chars) : chars[i] = c

\* the redaction glyph U+2022, one character of a text
GLYPH == "U+2022"

\* text.charCodeAt(i) of an ASCII character or of the redaction glyph
charCodeAt(c) ==
    IF c = GLYPH THEN 8226
    ELSE IF c \in Range(LowerSeq) THEN 96 + IndexOf(c, LowerSeq)
    ELSE IF c \in Range(Ascii123) THEN 122 + IndexOf(c, Ascii123)
    ELSE 31 + IndexOf(c, Ascii32)

\* one round of the loop of getCacheKey on a 32-bit hash held as two 16-bit
\* halves: (hash << 5) - hash + char is 31 * hash + char, and hash & hash
\* keeps its low 32 bits
HashStep(h, code) ==
    [hi |-> (h.hi * 31 + ((h.lo * 31 + code) \div 65536)) % 65536,
     lo |-> (h.lo * 31 + code) % 65536]

RECURSIVE HashFrom(_, _, _)
HashFrom(text, i, h) ==
    IF i > Len(text) THEN h
    ELSE HashFrom(text, i + 1, HashStep(h, charCodeAt(text[i])))

\* the signed value of a 32-bit hash (ToInt32)
ToInt32(h) == IF h.hi >= 32768 THEN (h.hi - 65536) * 65536 + h.lo ELSE h.hi * 65536 + h.lo

Digits36 ==
    <<"0", "1", "2", "3", "4", "5", "6", "7", "8", "9", "a", "b", "c", "d", "e", "f",
      "g", "h", "i", "j", "k", "l", "m", "n", "o", "p", "q", "r", "s", "t", "u", "v",
      "w", "x", "y", "z">>

\* Number.prototype.toString(36) of a natural number / of an integer.
\* (-n is computed on n \div 36 and n % 36 so that -2^31 is handled.)
RECURSIVE ToString36Nat(_)
ToString36Nat(n) ==
    IF n < 36 THEN <<Digits36[n + 1]>>
    ELSE ToString36Nat(n \div 36) \o <<Digits36[(n % 36) + 1]>>

ToString36(n) ==
    IF n >= 0 THEN ToString36Nat(n)
    ELSE IF n % 36 = 0 THEN <<"-">> \o ToString36Nat(-(n \div 36)) \o <<"0">>
    ELSE <<"-">> \o ToString36Nat(-(n \div 36) - 1) \o <<Digits36[(36 - (n % 36)) + 1]>>

\* getCacheKey(text)
getCacheKey(text) == ToString36(ToInt32(HashFrom(text, 1, [hi |-> 0, lo |-> 0])))

\* the whitespace of the model's texts
Whitespace == {" "}

RECURSIVE TrimStart(_)
TrimStart(text) ==
    IF text # <<>> /\ Head(text) \in Whitespace THEN TrimStart(Tail(text)) ELSE text

RECURSIVE TrimEnd(_)
TrimEnd(text) ==
    IF text # <<>> /\ text[Len(text)] \in Whitespace
    THEN TrimEnd(SubSeq(text, 1, Len(text) - 1))
    ELSE text

\* String.prototype.trim
Trim(text) == TrimEnd(TrimStart(text))

\* shouldScanText without the test of the maximum length
shouldScanTextNoMaximum(text) ==
    IF Len(text) = 0 \/ Len(Trim(text)) < MIN_TEXT_LENGTH THEN FALSE
    ELSE IF Cardinality(Range(text)) < 5 /\ Len(text) > 20 THEN FALSE
    ELSE TRUE

\* shouldScanText(text)
shouldScanText(text) ==
    IF Len(text) = 0 \/ Len(Trim(text)) < MIN_TEXT_LENGTH THEN FALSE
    ELSE IF Len(text) > MAX_TEXT_LENGTH THEN FALSE
    ELSE IF Cardinality(Range(text)) < 5 /\ Len(text) > 20 THEN FALSE
    ELSE TRUE

\* aiScanOptimizer.shouldScan(text): the scan gate, which rejects a text
\* under the minimum length, over the maximum length, or of fewer than 5
\* distinct characters when longer than 20
ShouldScan(text) ==
    /\ Len(Trim(text)) >= MIN_TEXT_LENGTH
    /\ Len(text) <= MAX_TEXT_LENGTH
    /\ ~(Cardinality(Range(text)) < 5 /\ Len(text) > 20)

\* the markers of redacted content
M_REDACTED == <<"[", "R", "E", "D", "A", "C", "T", "E", "D", "]">>
M_REMOVED == <<"[", "R", "E", "M", "O", "V", "E", "D", "]">>
M_HIDDEN == <<"[", "H", "I", "D", "D", "E", "N", "]">>

\* value.includes(marker)
Includes(value, marker) ==
    \E k \in 0..(Len(value) - Len(marker)) : Substring(value, k, k + Len(marker)) = marker

\* a regular expression c{n,}, tested on value
HasRun(value, chars, n) ==
    \E k \in 0..(Len(value) - n) : \A i \in k..(k + n - 1) : CharAt(value, i) \in chars

\* isAlreadyRedacted(text): the marker patterns have the i flag
isAlreadyRedacted(text) ==
    \/ Includes(LowerAll(text), LowerAll(M_REDACTED))
    \/ Includes(LowerAll(text), LowerAll(M_REMOVED))
    \/ Includes(LowerAll(text), LowerAll(M_HIDDEN))
    \/ HasRun(text, {"*"}, 4)
    \/ HasRun(text, {"X", "x"}, 4)

\* text.replace(marker, '') with the g and i flags, from offset k on
RECURSIVE RemoveMarkerFrom(_, _, _)
RemoveMarkerFrom(text, marker, k) ==
    IF k >= Len(text) THEN <<>>
    ELSE IF /\ k + Len(marker) <= Len(text)
            /\ LowerAll(Substring(text, k, k + Len(marker))) = LowerAll(marker)
         THEN RemoveMarkerFrom(text, marker, k + Len(marker))
         ELSE <<text[k + 1]>> \o RemoveMarkerFrom(text, marker, k + 1)

\* text.replace(/c{n,}/g, '') from offset k on
RECURSIVE RemoveRunsFrom(_, _, _, _)
RemoveRunsFrom(text, chars, n, k) ==
    IF k >= Len(text) THEN <<>>
    ELSE IF RunEnd(text, k, chars) - k >= n
         THEN RemoveRunsFrom(text, chars, n, RunEnd(text, k, chars))
         ELSE <<text[k + 1]>> \o RemoveRunsFrom(text, chars, n, k + 1)

\* hasMinimalContent(text)
hasMinimalContent(text) ==
    Len(Trim(RemoveRunsFrom(
                RemoveRunsFrom(
                    RemoveMarkerFrom(
                        RemoveMarkerFrom(
                            RemoveMarkerFrom(text, M_REDACTED, 0), M_REMOVED, 0),
                        M_HIDDEN, 0),
                    {"*"}, 1, 0),
                {"X", "x"}, 4, 0))) >= MIN_TEXT_LENGTH

\* the filter of performAiScan on a detection's value
IsRedactionMarker(value) ==
    \/ Includes(value, M_REDACTED)
    \/ Includes(value, M_REMOVED)
    \/ Includes(value, M_HIDDEN)
    \/ HasRun(value, {"*"}, 4)

\* detections.filter(...) of performAiScan
FilterRedacted(detections) ==
    SelectSeq(detections, LAMBDA d : ~IsRedactionMarker(d.value))

(***************************************************************************)
(* The categories a field expects: getExpectedInputType and                *)
(* filterExpectedDetections of the content script.  An element is          *)
(* [id, name, placeholder, type, autocomplete, ariaLabel, title, label],   *)
(* label being the text of the label element of the field ("" when there   *)
(* is none).  A keyword is a sequence of                                   *)
(* literal parts and what the regular expression has between two parts:    *)
(* .* ("any") or \s* ("space").                                            *)
(***************************************************************************)
\* text holds part at offset k
HasAt(text, k, part) ==
    k + Len(part) <= Len(text) /\ Substring(text, k, k + Len(part)) = part

\* the offsets a gap that starts at offset k can end at
GapEnds(text, k, gap) ==
    {g \in k..Len(text) :
        \A i \in k..(g - 1) : gap = "any" \/ (gap = "space" /\ text[i + 1] \in Whitespace)}

\* the offsets a match of the keyword's parts from offset k can end at
RECURSIVE PartsEnds(_, _, _, _)
PartsEnds(text, k, parts, gap) ==
    IF ~HasAt(text, k, Head(parts)) THEN {}
    ELSE IF Len(parts) = 1 THEN {k + Len(Head(parts))}
    ELSE UNION {PartsEnds(text, g, Tail(parts), gap) :
                    g \in GapEnds(text, k + Len(Head(parts)), gap)}

\* /\b(keyword|keyword|...)\b/.test(text)
TestKeywords(keywords, text) ==
    \E keyword \in keywords : \E k \in 0..Len(text) :
        /\ WordBoundary(text, k)
        /\ \E e \in PartsEnds(text, k, keyword.parts, keyword.gap) : WordBoundary(text, e)

EMAIL_KEYWORDS ==
    {[parts |-> <<<<"e", "m", "a", "i", "l">>>>, gap |-> "none"],
     [parts |-> <<<<"e", "-", "m", "a", "i", "l">>>>, gap |-> "none"],
     [parts |-> <<<<"m", "a", "i", "l">>>>, gap |-> "none"]}

PHONE_KEYWORDS ==
    {[parts |-> <<<<"p", "h", "o", "n", "e">>>>, gap |-> "none"],
     [parts |-> <<<<"t", "e", "l", "e", "p", "h", "o", "n", "e">>>>, gap |-> "none"],
     [parts |-> <<<<"m", "o", "b", "i", "l", "e">>>>, gap |-> "none"],
     [parts |-> <<<<"c", "e", "l", "l">>>>, gap |-> "none"],
     [parts |-> <<<<"f", "a", "x">>>>, gap |-> "none"]}

PASSWORD_KEYWORDS ==
    {[parts |-> <<<<"p", "a", "s", "s", "w", "o", "r", "d">>>>, gap |-> "none"],
     [parts |-> <<<<"p", "a", "s", "s", "w", "d">>>>, gap |-> "none"],
     [parts |-> <<<<"p", "w", "d">>>>, gap |-> "none"]}

SSN_KEYWORDS ==
    {[parts |-> <<<<"s", "s", "n">>>>, gap |-> "none"],
     [parts |-> <<<<"s", "o", "c", "i", "a", "l">>, <<"s", "e", "c", "u", "r", "i", "t", "y">>>>, gap |-> "space"],
     [parts |-> <<<<"s", "o", "c", "i", "a", "l">>, <<"i", "n", "s", "u", "r", "a", "n", "c", "e">>>>, gap |-> "space"]}

CARD_KEYWORDS ==
    {[parts |-> <<<<"c", "a", "r", "d">>>>, gap |-> "none"],
     [parts |-> <<<<"c", "r", "e", "d", "i", "t">>, <<"c", "a", "r", "d">>>>, gap |-> "any"],
     [parts |-> <<<<"d", "e", "b", "i", "t">>, <<"c", "a", "r", "d">>>>, gap |-> "any"],
     [parts |-> <<<<"c", "c">>, <<"n", "u", "m", "b", "e", "r">>>>, gap |-> "any"],
     [parts |-> <<<<"c", "a", "r", "d">>, <<"n", "u", "m", "b", "e", "r">>>>, gap |-> "any"]}

DOB_KEYWORDS ==
    {[parts |-> <<<<"b", "i", "r", "t", "h">>, <<"d", "a", "t", "e">>>>, gap |-> "any"],
     [parts |-> <<<<"d", "o", "b">>>>, gap |-> "none"],
     [parts |-> <<<<"d", "a", "t", "e">>, <<"o", "f">>, <<"b", "i", "r", "t", "h">>>>, gap |-> "any"]}

\* const attrs of getExpectedInputType: the attributes in lower case
Attrs(element) ==
    [id |-> LowerAll(element.id), name |-> LowerAll(element.name),
     placeholder |-> LowerAll(element.placeholder), type |-> LowerAll(element.type),
     autocomplete |-> LowerAll(element.autocomplete),
     ariaLabel |-> LowerAll(element.ariaLabel), title |-> LowerAll(element.title)]

\* labelText: the label is looked up only for an element that has an id
LabelText(element) == IF element.id # <<>> THEN LowerAll(element.label) ELSE <<>>

\* Object.values(attrs).join(' ') + ' ' + labelText
AllText(attrs, labelText) ==
    attrs.id \o <<" ">> \o attrs.name \o <<" ">> \o attrs.placeholder \o <<" ">>
        \o attrs.type \o <<" ">> \o attrs.autocomplete \o <<" ">> \o attrs.ariaLabel
        \o <<" ">> \o attrs.title \o <<" ">> \o labelText

\* the tests of getExpectedInputType, one for each category
ExpectedTypesOf(attrs, allText) ==
    {t \in {"EMAIL", "PHONE", "PASSWORD", "SSN", "CREDIT_CARD", "DATE_OF_BIRTH"} :
        CASE t = "EMAIL" ->
                \/ attrs.type = <<"e", "m", "a", "i", "l">>
                \/ Includes(attrs.autocomplete, <<"e", "m", "a", "i", "l">>)
                \/ TestKeywords(EMAIL_KEYWORDS, allText)
          [] t = "PHONE" ->
                \/ attrs.type = <<"t", "e", "l">>
                \/ Includes(attrs.autocomplete, <<"t", "e", "l">>)
                \/ TestKeywords(PHONE_KEYWORDS, allText)
          [] t = "PASSWORD" ->
                \/ attrs.type = <<"p", "a", "s", "s", "w", "o", "r", "d">>
                \/ Includes(attrs.autocomplete, <<"p", "a", "s", "s", "w", "o", "r", "d">>)
                \/ TestKeywords(PASSWORD_KEYWORDS, allText)
          [] t = "SSN" ->
                \/ Includes(attrs.autocomplete, <<"s", "s", "n">>)
                \/ TestKeywords(SSN_KEYWORDS, allText)
          [] t = "CREDIT_CARD" ->
                \/ Includes(attrs.autocomplete, <<"c", "c", "-">>)
                \/ attrs.autocomplete = <<"c", "c", "-", "n", "u", "m", "b", "e", "r">>
                \/ TestKeywords(CARD_KEYWORDS, allText)
          [] OTHER ->
                \/ Includes(attrs.autocomplete, <<"b", "d", "a", "y">>)
                \/ TestKeywords(DOB_KEYWORDS, allText)}

\* getExpectedInputType(element)
getExpectedInputType(element) ==
    ExpectedTypesOf(Attrs(element), AllText(Attrs(element), LabelText(element)))

\* the filter that keeps the detections of an expected type
filterExpectedDetectionsKeepsExpected(detections, expectedTypes) ==
    SelectSeq(detections, LAMBDA d : d.type \in expectedTypes)

\* filterExpectedDetections(detections, expectedTypes)
filterExpectedDetections(detections, expectedTypes) ==
    IF Cardinality(expectedTypes) = 0 THEN detections
    ELSE SelectSeq(detections, LAMBDA d : d.type \notin expectedTypes)

\* an input element of the page
Element(id, name, placeholder, type, autocomplete, title, label) ==
    [id |-> id, name |-> name, placeholder |-> placeholder, type |-> type,
     autocomplete |-> autocomplete, ariaLabel |-> <<>>, title |-> title, label |-> label]

A_TEXT == <<"t", "e", "x", "t">>

\* a field that declares nothing
E_PLAIN == Element(<<>>, <<>>, <<>>, A_TEXT, <<>>, <<>>, <<>>)
\* fields that name a category in a word of their name, placeholder, title
\* or label, or declare it in their kind or their autocomplete attribute
E_EMAIL == Element(<<>>, <<"e", "m", "a", "i", "l">>, <<>>, A_TEXT, <<>>, <<>>, <<>>)
E_KIND == Element(<<>>, <<>>, <<>>, <<"e", "m", "a", "i", "l">>, <<>>, <<>>, <<>>)
E_PLACEHOLDER == Element(<<>>, <<>>, <<"Y", "o", "u", "r", " ", "E", "-", "M", "a", "i", "l">>, A_TEXT, <<>>, <<>>, <<>>)
E_TEL == Element(<<>>, <<>>, <<>>, <<"t", "e", "l">>, <<>>, <<"M", "o", "b", "i", "l", "e", " ", "p", "h", "o", "n", "e">>, <<>>)
E_SSN == Element(<<"f">>, <<>>, <<>>, A_TEXT, <<>>, <<>>, <<"S", "o", "c", "i", "a", "l", " ", " ", "S", "e", "c", "u", "r", "i", "t", "y", " ", "n", "u", "m", "b", "e", "r">>)
E_CARD == Element(<<>>, <<>>, <<>>, A_TEXT, <<"c", "c", "-", "n", "u", "m", "b", "e", "r">>, <<"C", "r", "e", "d", "i", "t", " ", "o", "r", " ", "d", "e", "b", "i", "t", " ", "c", "a", "r", "d">>, <<>>)
\* fields whose name holds a keyword inside a longer word
E_USER_EMAIL == Element(<<>>, <<"u", "s", "e", "r", "_", "e", "m", "a", "i", "l">>, <<>>, A_TEXT, <<>>, <<>>, <<>>)
E_CELLPHONE == Element(<<>>, <<"c", "e", "l", "l", "p", "h", "o", "n", "e">>, <<>>, A_TEXT, <<>>, <<>>, <<>>)
\* a field without an id inside its label
E_WRAPPED == Element(<<>>, <<>>, <<>>, A_TEXT, <<>>, <<>>, <<"E", "m", "a", "i", "l">>)

Elements ==
    {E_PLAIN, E_EMAIL, E_KIND, E_PLACEHOLDER, E_TEL, E_SSN, E_CARD, E_USER_EMAIL,
     E_CELLPHONE, E_WRAPPED}

\* the texts scanned in a field that expects categories
T_ABCOM == <<"a", "@", "b", ".", "c", "o", "m">>
T_CONTACT == S_PHONE \o S_SPACE \o T_ABCOM \o S_SPACE \o S_SSN
T_STAFF == S_EMP \o S_SPACE \o S_EMAIL \o S_SPACE \o S_SSN

ExpectedTexts == {T_ABCOM, T_CONTACT, T_STAFF}

\* the lists getPatterns returns for these scans
ExpectedPatternLists == {<<P_ID>>}

\* the pattern part of a scan of the text of element (debouncedScan, the
\* paste and focus listeners, manualRescan): getExpectedInputType(element),
\* detectPii(text) and filterExpectedDetections(results, expectedTypes)
FilteredScanCall(element, text) ==
    /\ realm = "content"
    /\ scanText' = text
    /\ scanPatterns' = customPatterns
    /\ scanResult' = detectPii(text, customPatterns)
    /\ regexLastIndex' = LastIndexAfterMatchAll(regexLastIndex, text)
    /\ scanElement' = element
    /\ scanExpected' = getExpectedInputType(element)
    /\ scanFiltered' = filterExpectedDetections(scanResult', scanExpected')
    /\ lastCall' = "cFilteredScan"
    /\ UNCHANGED <<cApiClient, cQueue, cProcessing, cDeliveries, cHanded, cFailed,
                   bgVars, nextItem, failures, realm>>
    /\ UNCHANGED <<hasToken, customPatterns, fetches, lastObtained, lastRegistered,
                   mergeLog>>
    /\ UNCHANGED <<autoAiScan, activeInput, focused, contextMenuInput, fieldText,
                   indicator, blurTimer, aiScanCache, now, scans, started, calls, edits,
                   maskTimers, maskLog, badgeCalls, gateLog, aiScan>>

(***************************************************************************)
(* Masking: anonymizeValue of the content script.                          *)
(***************************************************************************)
\* '•'.repeat(n) for n >= 0
Repeat(c, n) == [i \in 1..n |-> c]

\* str.indexOf(c, from): the first offset at or after from that holds c, -1
\* when there is none
IndexOfFrom(str, c, from) ==
    IF \E k \in from..(Len(str) - 1) : str[k + 1] = c
    THEN CHOOSE k \in from..(Len(str) - 1) :
            /\ str[k + 1] = c
            /\ \A j \in from..(k - 1) : str[j + 1] # c
    ELSE -1

\* cleaned.slice(-4)
Last4(cleaned) == SubSeq(cleaned, Max({1, Len(cleaned) - 3}), Len(cleaned))

\* masked.match(/.{1,4}/g).join(' ') for a masked of n > 0 glyphs: groups of
\* four glyphs, the last one shorter when n is no multiple of 4
GroupsOfFour(n) ==
    [i \in 1..(n + (n - 1) \div 4) |-> IF i % 5 = 0 THEN " " ELSE GLYPH]

\* the CREDIT_CARD case of anonymizeValue throws: '•'.repeat of a negative
\* count is a RangeError
CardMaskThrows(value) == Len(SelectSeq(value, LAMBDA c : c \notin Whitespace)) < 4

\* the CREDIT_CARD case of anonymizeValue, cleaned being
\* value.replace(/\s/g, '') of at least 4 characters.  When masked is empty,
\* masked.match(...) is null and the optional chain gives undefined, which
\* the + turns into the text "undefined"
CardMask(value, cleaned) ==
    IF \E i \in 1..Len(value) : value[i] = " "
    THEN (IF Len(cleaned) = 4
          THEN <<"u", "n", "d", "e", "f", "i", "n", "e", "d">>
          ELSE GroupsOfFour(Len(cleaned) - 4))
         \o <<" ">> \o Last4(cleaned)
    ELSE Repeat(GLYPH, Len(cleaned) - 4) \o Last4(cleaned)

\* the EMAIL case with one glyph for each character of user after the first
EmailMaskNoMinimum(value, at, end) ==
    IF at <= 0 \/ end - at <= 1 THEN M_REDACTED
    ELSE <<value[1]>> \o Repeat(GLYPH, at - 1) \o <<"@">> \o Substring(value, at + 1, end)

\* the EMAIL case with two glyphs whatever the length of user
EmailMaskTwoGlyphs(value, at, end) ==
    IF at <= 0 \/ end - at <= 1 THEN M_REDACTED
    ELSE <<value[1]>> \o Repeat(GLYPH, 2) \o <<"@">> \o Substring(value, at + 1, end)

\* the EMAIL case of anonymizeValue: [user, domain] = value.split('@'), at
\* being the offset of the first '@' (the length of value when there is
\* none) and end the offset of the second (the length when there is none)
EmailMask(value, at, end) ==
    IF at <= 0 \/ end - at <= 1 THEN M_REDACTED
    ELSE <<value[1]>> \o Repeat(GLYPH, Max({at - 1, 2})) \o <<"@">>
            \o Substring(value, at + 1, end)

EndOfPart(value, at) ==
    IF at < 0 THEN Len(value)
    ELSE IF IndexOfFrom(value, "@", at + 1) < 0 THEN Len(value)
    ELSE IndexOfFrom(value, "@", at + 1)

\* value.substring(offset).match(/\d/g).length
DigitsToEnd(value, offset) ==
    Cardinality({k \in offset..(Len(value) - 1) : value[k + 1] \in Digits})

\* the SSN / PHONE case keeping the last 3 digits
DigitMaskKeepThree(value) ==
    [i \in 1..Len(value) |->
        IF value[i] \in Digits /\ DigitsToEnd(value, i - 1) > 3 THEN GLYPH ELSE value[i]]

\* the SSN / PHONE case of anonymizeValue: value.replace(/(\d)/g, ...), whose
\* callback gets the offset of the digit
DigitMask(value) ==
    [i \in 1..Len(value) |->
        IF value[i] \in Digits /\ DigitsToEnd(value, i - 1) > 4 THEN GLYPH ELSE value[i]]

\* anonymizeValue(detection) throws
AnonymizeThrows(detection) ==
    detection.type = "CREDIT_CARD" /\ CardMaskThrows(detection.value)

\* anonymizeValue(detection), when it returns
anonymizeValue(detection) ==
    CASE detection.type = "CREDIT_CARD" ->
            CardMask(detection.value,
                     SelectSeq(detection.value, LAMBDA c : c \notin Whitespace))
      [] detection.type = "EMAIL" ->
            EmailMask(detection.value,
                      IF IndexOfFrom(detection.value, "@", 0) < 0
                      THEN Len(detection.value)
                      ELSE IndexOfFrom(detection.value, "@", 0),
                      EndOfPart(detection.value, IndexOfFrom(detection.value, "@", 0)))
      [] detection.type \in {"SSN", "PHONE"} -> DigitMask(detection.value)
      [] OTHER -> M_REDACTED

\* what handleAnonymize reads of a detection
Req(d) == [type |-> d.type, value |-> d.value]

\* sorted with d inserted behind the detections whose value is at least as
\* long
RECURSIVE InsertByLength(_, _)
InsertByLength(sorted, d) ==
    IF sorted = <<>> THEN <<d>>
    ELSE IF Len(Head(sorted).value) >= Len(d.value)
    THEN <<Head(sorted)>> \o InsertByLength(Tail(sorted), d)
    ELSE <<d>> \o sorted

\* [...detections].sort((a, b) => b.value.length - a.value.length): the
\* longest value first, detections of equal length in their order
RECURSIVE SortByLength(_)
SortByLength(detections) ==
    IF detections = <<>> THEN <<>>
    ELSE InsertByLength(SortByLength(SubSeq(detections, 1, Len(detections) - 1)),
                        detections[Len(detections)])

\* text.indexOf(value)
IndexOfText(text, value) ==
    IF \E k \in 0..(Len(text) - Len(value)) : Substring(text, k, k + Len(value)) = value
    THEN CHOOSE k \in 0..(Len(text) - Len(value)) :
            /\ Substring(text, k, k + Len(value)) = value
            /\ \A j \in 0..(k - 1) : Substring(text, j, j + Len(value)) # value
    ELSE -1

\* newValue.replace(d.value, anonymized): the first occurrence of the value
\* is replaced, none when the text does not hold the value
Replace(text, value, anonymized) ==
    IF IndexOfText(text, value) < 0 THEN text
    ELSE Substring(text, 0, IndexOfText(text, value)) \o anonymized
            \o Substring(text, IndexOfText(text, value) + Len(value), Len(text))

\* sortedDetections.forEach(d => { newValue = newValue.replace(d.value,
\* anonymizeValue(d)) }) when no call of anonymizeValue throws
RECURSIVE ReplaceEach(_, _)
ReplaceEach(newValue, sortedDetections) ==
    IF sortedDetections = <<>> THEN newValue
    ELSE ReplaceEach(Replace(newValue, Head(sortedDetections).value,
                             anonymizeValue(Head(sortedDetections))),
                     Tail(sortedDetections))

\* the forEach of handleAnonymize throws: a call of anonymizeValue does
ForEachThrows(sortedDetections) ==
    \E i \in 1..Len(sortedDetections) : AnonymizeThrows(sortedDetections[i])

\* history: handleAnonymize has not been called
NoMask == [count |-> 0]

\* history: shouldScanText has not been called
NoGate == [called |-> FALSE, text |-> <<>>, result |-> FALSE]

\* history of the call handleAnonymize(detections) with activeInput set:
\* the value of the field before and after, and whether the forEach threw,
\* in which case the field is never written
MaskOf(count, input, before, sortedDetections) ==
    [count      |-> count,
     input      |-> input,
     detections |-> sortedDetections,
     before     |-> before,
     threw      |-> ForEachThrows(sortedDetections),
     after      |-> IF ForEachThrows(sortedDetections) THEN before
                    ELSE ReplaceEach(before, sortedDetections)]

(***************************************************************************)
(* The handlers of the content script that scan a field.  A handler runs   *)
(* to its next await in one step; UiState is the state it works on, and a  *)
(* scan is a handler invocation [id, trigger, input, text, results, stage, *)
(* ai, abandoned], kept in scans while it is suspended.                    *)
(***************************************************************************)
Fields == {"f1", "f2"}

T_SHORT == S_EMP
T_A == S_SSN
T_B == S_EMAIL \o S_EMP

\* the values a field holds
ScanTexts == {T_SHORT, T_A, T_B}

\* detections of a response of analyzeContext
D_NAME == [type |-> "NAME", value |-> S_EMP]
D_MARK == [type |-> "SECRET", value |-> M_REDACTED]

\* result.detections of a response of analyzeContext
AiResponses == {<<>>, <<D_NAME, D_MARK>>}

\* aiDetections: null, or an array of detections
AiNull == [isNull |-> TRUE, detections |-> <<>>]
AiOf(detections) == [isNull |-> FALSE, detections |-> detections]

NoIndicator == [kind |-> "none"]

UiState ==
    [activeInput |-> activeInput, focused |-> focused, indicator |-> indicator,
     blurTimer |-> blurTimer, cache |-> aiScanCache, scans |-> scans,
     started |-> started, calls |-> calls, q |-> ContentState, nextItem |-> nextItem]

\* the bound on the scans of a behaviour
ScanLimit == IF maskLog.count > 0 THEN MaxMaskScans ELSE MaxScans

SetUi(u) ==
    /\ Len(u.started) <= ScanLimit
    /\ activeInput' = u.activeInput
    /\ focused' = u.focused
    /\ indicator' = u.indicator
    /\ blurTimer' = u.blurTimer
    /\ aiScanCache' = u.cache
    /\ scans' = u.scans
    /\ started' = u.started
    /\ calls' = u.calls
    /\ SetContent(u.q)
    /\ nextItem' = u.nextItem

\* history: the scan started last for input
NewestScanOf(startedScans, input) ==
    Max({0} \cup {i \in 1..Len(startedScans) : startedScans[i].input = input})

\* removeAllIndicators()
removeAllIndicators(u) == [u EXCEPT !.indicator = NoIndicator]

\* activeInput = target: history marks the remote calls in flight that the
\* field left behind had started
SetActiveInput(u, target) ==
    [u EXCEPT !.activeInput = target,
              !.scans = {IF /\ s.stage = "analyze"
                            /\ s.input = u.activeInput
                            /\ s.input # target
                         THEN [s EXCEPT !.abandoned = TRUE]
                         ELSE s : s \in u.scans}]

\* detections.forEach(detection => detectionQueue.add(...)) for n detections
RECURSIVE AddItems(_, _)
AddItems(u, n) ==
    IF n = 0 THEN u
    ELSE AddItems([u EXCEPT !.q = ContentAddTo(u.q, u.nextItem + 1),
                            !.nextItem = u.nextItem + 1],
                  n - 1)

\* handleDetection from "if (!activeInput) return" on: the badge or the dot
\* is created on activeInput, or rendered again in its container
Render(u, sc) ==
    IF u.activeInput = Null THEN u
    ELSE [u EXCEPT !.indicator =
            [kind       |-> IF Len(sc.results) > 0 \/ Len(sc.ai.detections) > 0
                            THEN "badge" ELSE "dot",
             field      |-> u.activeInput,
             detections |-> sc.results,
             ai         |-> sc.ai,
             inputText  |-> fieldText[u.activeInput],
             scan       |-> sc.id,
             from       |-> sc.input,
             abandoned  |-> sc.abandoned,
             newest     |-> NewestScanOf(u.started, sc.input)]]

\* handleDetection(detections, aiDetections) up to its await of
\* getCurrentTeamId, which it reaches when there are pattern detections and
\* neither a badge nor a dot
handleDetection(u, sc) ==
    IF Len(sc.results) > 0 /\ u.indicator.kind = "none"
    THEN [u EXCEPT !.scans = @ \cup {[sc EXCEPT !.stage = "team"]}]
    ELSE Render(u, sc)

\* aiScanCache holds an entry for text that has not expired
CacheFresh(cache, text) ==
    /\ getCacheKey(text) \in DOMAIN cache
    /\ now - cache[getCacheKey(text)].timestamp < CACHE_DURATION

\* performAiScan returns without a remote call: null, or the cached
\* detections
PerformAiScanReturns(u, text) ==
    \/ ~shouldScanText(text)
    \/ isAlreadyRedacted(text) /\ ~hasMinimalContent(text)
    \/ CacheFresh(u.cache, text)
    \/ ~cApiClient

PerformAiScanValue(u, text) ==
    IF /\ shouldScanText(text)
       /\ ~(isAlreadyRedacted(text) /\ ~hasMinimalContent(text))
       /\ CacheFresh(u.cache, text)
    THEN AiOf(u.cache[getCacheKey(text)].detections)
    ELSE AiNull

RECURSIVE AfterAi(_, _)

\* the handler from its call of performAiScan(input, text) on: the call of
\* analyzeContext and the await, or the return without a call
ScanWithAi(u, sc) ==
    IF PerformAiScanReturns(u, sc.text)
    THEN AfterAi(u, [sc EXCEPT !.ai = PerformAiScanValue(u, sc.text)])
    ELSE [u EXCEPT !.scans = @ \cup {[sc EXCEPT !.stage = "analyze"]},
                   !.calls = Append(@, [scan |-> sc.id, text |-> sc.text, time |-> now])]

\* a new scan of input by a handler
NewScan(u, trigger, input) ==
    [id |-> Len(u.started) + 1, trigger |-> trigger, input |-> input,
     text |-> fieldText[input], results |-> detectPii(fieldText[input], customPatterns),
     stage |-> "sync", ai |-> AiNull, abandoned |-> FALSE]

Started(u, sc) == [u EXCEPT !.started = Append(@, [input |-> sc.input, text |-> sc.text])]

\* a handler from its test of the scan gate on
StartScan(u, sc, gate) ==
    IF gate THEN ScanWithAi(Started(u, sc), sc) ELSE AfterAi(Started(u, sc), sc)

\* the focusin listener for a valid input
FocusInListener(u, target) ==
    StartScan(SetActiveInput(removeAllIndicators(u), target),
              NewScan(u, "focusin", target),
              autoAiScan /\ ShouldScan(fieldText[target]))

\* the focusout listener: it starts the 100 ms timer
FocusOutListener(u) == IF u.focused # Null THEN [u EXCEPT !.blurTimer = TRUE] ELSE u

\* element.focus(): the focus moves unless the element has it, and the
\* focusout and focusin listeners run
Focus(u, element) ==
    IF element = Null \/ u.focused = element THEN u
    ELSE FocusInListener([FocusOutListener(u) EXCEPT !.focused = element], element)

\* the second timer of handleAnonymize after performAiScan returned:
\* freshResults = detectPii(getInputValue(activeInput)), which throws when
\* activeInput is null by then, and handleDetection(freshResults,
\* freshAiDetections)
FreshRescan(u, sc) ==
    IF u.activeInput = Null THEN u
    ELSE handleDetection(u, [sc EXCEPT !.results =
                                detectPii(fieldText[u.activeInput], customPatterns)])

\* a handler after performAiScan returned: handleDetection(results,
\* aiDetections), and contextMenuInput.focus() at the end of manualRescan
AfterAi(u, sc) ==
    IF sc.trigger = "manual"
    THEN Focus(handleDetection(u, sc), contextMenuInput)
    ELSE IF sc.trigger = "aiRescan"
    THEN FreshRescan(u, sc)
    ELSE handleDetection(u, sc)

\* manualRescan() with contextMenuInput set
manualRescan(u) ==
    StartScan(u, NewScan(u, "manual", contextMenuInput),
              autoAiScan /\ shouldScanText(fieldText[contextMenuInput]))

\* the loop of performAiScan that deletes the expired entries
SweepCache(cache) ==
    [k \in {x \in DOMAIN cache : ~(now - cache[x].timestamp > CACHE_DURATION)} |-> cache[k]]

\* aiScanCache.set(cacheKey, {detections, timestamp: Date.now()})
CacheSet(cache, text, detections) ==
    [k \in DOMAIN cache \cup {getCacheKey(text)} |->
        IF k = getCacheKey(text) THEN [detections |-> detections, timestamp |-> now]
        ELSE cache[k]]

\* performAiScan from aiScanCache.set on, and the handler that awaited it
CacheAndReturn(u, sc, filtered) ==
    AfterAi([u EXCEPT !.cache = SweepCache(CacheSet(u.cache, sc.text, filtered))],
            [sc EXCEPT !.ai = AiOf(filtered)])

Suspended(u, sc) == [u EXCEPT !.scans = @ \ {sc}]

(***************************************************************************)
(* Events of the page and completions of the awaited calls.                *)
(***************************************************************************)
scanFixed == <<cApiClient, cFailed, bgVars, failures, realm, detVars, autoAiScan,
                scanElement, scanExpected, scanFiltered, gateLog, aiScan>>
scanOther == <<scanFixed, maskTimers, maskLog, badgeCalls>>

\* the user moves the focus to field f
FocusIn(f) ==
    /\ realm = "content"
    /\ focused # f
    /\ SetUi(Focus(UiState, f))
    /\ lastCall' = "ui"
    /\ UNCHANGED <<scanOther, contextMenuInput, fieldText, now, edits>>

\* the user moves the focus to an element that is not a valid input
Blur ==
    /\ realm = "content"
    /\ focused # Null
    /\ SetUi([FocusOutListener(UiState) EXCEPT !.focused = Null])
    /\ lastCall' = "ui"
    /\ UNCHANGED <<scanOther, contextMenuInput, fieldText, now, edits>>

\* the timer of the focusout listener fires
BlurTimerFires ==
    /\ realm = "content"
    /\ blurTimer
    /\ SetUi(IF focused # activeInput
             THEN [SetActiveInput(removeAllIndicators(UiState), Null)
                      EXCEPT !.blurTimer = FALSE]
             ELSE [UiState EXCEPT !.blurTimer = FALSE])
    /\ lastCall' = "ui"
    /\ UNCHANGED <<scanOther, contextMenuInput, fieldText, now, edits>>

\* the contextmenu listener for a valid input
ContextMenu(target) ==
    /\ realm = "content"
    /\ contextMenuInput # target
    /\ contextMenuInput' = target
    /\ lastCall' = "ui"
    /\ UNCHANGED <<scanOther, cQueue, cProcessing, cDeliveries, cHanded, nextItem,
                   activeInput, focused, fieldText, indicator, blurTimer,
                   aiScanCache, now, scans, started, calls, edits>>

\* the message rescanForPii arrives
ManualRescan ==
    /\ realm = "content"
    /\ contextMenuInput # Null
    /\ SetUi(manualRescan(UiState))
    /\ lastCall' = "ui"
    /\ UNCHANGED <<scanOther, contextMenuInput, fieldText, now, edits>>

\* the user changes the value of the field that has the focus
EditText(f, text) ==
    /\ realm = "content"
    /\ edits < MaxEdits
    /\ focused = f
    /\ fieldText[f] # text
    /\ fieldText' = [fieldText EXCEPT ![f] = text]
    /\ edits' = edits + 1
    /\ lastCall' = "ui"
    /\ UNCHANGED <<scanOther, cQueue, cProcessing, cDeliveries, cHanded, nextItem,
                   activeInput, focused, contextMenuInput, indicator, blurTimer,
                   aiScanCache, now, scans, started, calls>>

\* time passes
Tick ==
    /\ realm = "content"
    /\ now + TickMs <= MaxNow
    /\ now' = now + TickMs
    /\ lastCall' = "ui"
    /\ UNCHANGED <<scanOther, cQueue, cProcessing, cDeliveries, cHanded, nextItem,
                   activeInput, focused, contextMenuInput, fieldText, indicator,
                   blurTimer, aiScanCache, scans, started, calls, edits>>

\* analyzeContext resolves with detections: performAiScan filters them and,
\* when some are left, awaits getCurrentTeamId to log them
AnalyzeResolved(sc, detections) ==
    /\ realm = "content"
    /\ sc \in scans
    /\ sc.stage = "analyze"
    /\ SetUi(IF Len(FilterRedacted(detections)) > 0
             THEN [UiState EXCEPT !.scans = (@ \ {sc}) \cup
                      {[sc EXCEPT !.stage = "aiTeam",
                                  !.ai = AiOf(FilterRedacted(detections))]}]
             ELSE CacheAndReturn(Suspended(UiState, sc), sc, FilterRedacted(detections)))
    /\ lastCall' = "ui"
    /\ UNCHANGED <<scanOther, contextMenuInput, fieldText, now, edits>>

\* getCurrentTeamId resolves in performAiScan: every detection is added to
\* detectionQueue, the cache entry is set and performAiScan returns
AiTeamResolved(sc) ==
    /\ realm = "content"
    /\ sc \in scans
    /\ sc.stage = "aiTeam"
    /\ SetUi(CacheAndReturn(AddItems(Suspended(UiState, sc), Len(sc.ai.detections)),
                            sc, sc.ai.detections))
    /\ lastCall' = "ui"
    /\ UNCHANGED <<scanOther, contextMenuInput, fieldText, now, edits>>

\* analyzeContext rejects: performAiScan catches and returns null
AnalyzeRejected(sc) ==
    /\ realm = "content"
    /\ sc \in scans
    /\ sc.stage = "analyze"
    /\ SetUi(AfterAi(Suspended(UiState, sc), [sc EXCEPT !.ai = AiNull]))
    /\ lastCall' = "ui"
    /\ UNCHANGED <<scanOther, contextMenuInput, fieldText, now, edits>>

\* getCurrentTeamId resolves in handleDetection: the pattern detections are
\* added to detectionQueue and the indicator is rendered
TeamResolved(sc) ==
    /\ realm = "content"
    /\ sc \in scans
    /\ sc.stage = "team"
    /\ SetUi(Render(AddItems(Suspended(UiState, sc), Len(sc.results)), sc))
    /\ lastCall' = "ui"
    /\ UNCHANGED <<scanOther, contextMenuInput, fieldText, now, edits>>

(***************************************************************************)
(* handleAnonymize, the callback of the badge, and its timers.  A timer is *)
(* [kind, input, text]; an invocation of handleAnonymize suspended at its  *)
(* await of getCurrentTeamId is kept in scans with stage "maskTeam".       *)
(***************************************************************************)
Timer(kind, input, text) == [kind |-> kind, input |-> input, text |-> text]

\* the arguments the badge calls onAnonymize with: one pattern detection or
\* one detection of the remote scan (handleAnonymizeClick), or all pattern
\* detections (handleAnonymizeAll)
BadgeRequests(badge) ==
    IF badge.kind # "badge" THEN {}
    ELSE {<<Req(badge.detections[i])>> : i \in 1..Len(badge.detections)}
            \cup {<<Req(badge.ai.detections[i])>> : i \in 1..Len(badge.ai.detections)}
            \cup {[i \in 1..Len(badge.detections) |-> Req(badge.detections[i])]}

\* debouncedScan(text, input): the pending call is replaced
Debounced(timers, input, text) ==
    {t \in timers : t.kind # "debounce"} \cup {Timer("debounce", input, text)}

\* handleAnonymize(detections) up to its await of getCurrentTeamId: the
\* field is written, the dispatched input events reach the handler of
\* attachInputListener, and the timer of input.blur() starts
HandleAnonymize(detections) ==
    /\ realm = "content"
    /\ maskLog.count < MaxMasks
    /\ indicator.kind = "badge"
    /\ detections \in BadgeRequests(indicator)
    /\ IF activeInput = Null
       THEN UNCHANGED <<maskLog, fieldText, maskTimers, scans>>
       ELSE /\ maskLog' = MaskOf(maskLog.count + 1, activeInput, fieldText[activeInput],
                                 SortByLength(detections))
            /\ fieldText' = [fieldText EXCEPT ![activeInput] = maskLog'.after]
            /\ IF maskLog'.threw
               THEN UNCHANGED <<maskTimers, scans>>
               ELSE /\ maskTimers' = Debounced(maskTimers, activeInput, maskLog'.after)
                                        \cup {Timer("blur", activeInput, <<>>)}
                    /\ scans' = scans \cup
                          {[id |-> 0, trigger |-> "anonymize", input |-> activeInput,
                            text |-> maskLog'.after, results |-> maskLog'.detections,
                            stage |-> "maskTeam", ai |-> AiNull, abandoned |-> FALSE]}
    /\ lastCall' = "ui"
    /\ UNCHANGED <<scanFixed, cQueue, cProcessing, cDeliveries, cHanded, nextItem,
                   activeInput, focused, contextMenuInput, indicator, blurTimer,
                   aiScanCache, now, started, calls, edits, badgeCalls>>

\* aiScanCache.delete(key)
CacheDelete(cache, key) == [k \in DOMAIN cache \ {key} |-> cache[k]]

\* getCurrentTeamId resolves in handleAnonymize: the masked detections are
\* added to detectionQueue, the cache entry of the new value is deleted and
\* the timer of the rescan starts
AnonymizeTeamResolved(sc) ==
    /\ realm = "content"
    /\ sc \in scans
    /\ sc.stage = "maskTeam"
    /\ SetUi([AddItems(Suspended(UiState, sc), Len(sc.results))
                EXCEPT !.cache = CacheDelete(@, getCacheKey(sc.text))])
    /\ maskTimers' = maskTimers \cup {Timer("rescan", sc.input, <<>>)}
    /\ lastCall' = "ui"
    /\ UNCHANGED <<scanFixed, contextMenuInput, fieldText, now, edits, maskLog, badgeCalls>>

\* the first timer of the input branch fires: input.blur(), and the timer of
\* input.focus() starts
MaskBlurTimer(t) ==
    /\ realm = "content"
    /\ t \in maskTimers
    /\ t.kind = "blur"
    /\ SetUi(IF focused = t.input
             THEN [FocusOutListener(UiState) EXCEPT !.focused = Null]
             ELSE UiState)
    /\ maskTimers' = (maskTimers \ {t}) \cup {Timer("focus", t.input, <<>>)}
    /\ lastCall' = "ui"
    /\ UNCHANGED <<scanFixed, contextMenuInput, fieldText, now, edits, maskLog, badgeCalls>>

\* the nested timer fires: input.focus()
MaskFocusTimer(t) ==
    /\ realm = "content"
    /\ t \in maskTimers
    /\ t.kind = "focus"
    /\ SetUi(Focus(UiState, t.input))
    /\ maskTimers' = maskTimers \ {t}
    /\ lastCall' = "ui"
    /\ UNCHANGED <<scanFixed, contextMenuInput, fieldText, now, edits, maskLog, badgeCalls>>

\* a scan of text for input by a timer
TimerScan(u, trigger, input, text) ==
    [NewScan(u, trigger, input) EXCEPT !.text = text,
                                       !.results = detectPii(text, customPatterns)]

\* the timer of the rescan fires: handleDetection(results, null) for the
\* value of activeInput, and the timer of the fresh remote scan starts when
\* the scan gate accepts the value
RescanTimer(t) ==
    /\ realm = "content"
    /\ t \in maskTimers
    /\ t.kind = "rescan"
    /\ IF activeInput = Null
       THEN /\ SetUi(UiState)
            /\ maskTimers' = maskTimers \ {t}
       ELSE /\ SetUi(handleDetection(Started(UiState, NewScan(UiState, "rescan", activeInput)),
                                     NewScan(UiState, "rescan", activeInput)))
            /\ maskTimers' = (maskTimers \ {t}) \cup
                  (IF autoAiScan /\ ShouldScan(fieldText[activeInput])
                   THEN {Timer("aiRescan", activeInput, fieldText[activeInput])}
                   ELSE {})
    /\ lastCall' = "ui"
    /\ UNCHANGED <<scanFixed, contextMenuInput, fieldText, now, edits, maskLog, badgeCalls>>

\* the timer of the fresh remote scan fires: performAiScan(activeInput,
\* currentValue), currentValue being the value the rescan read
AiRescanTimer(t) ==
    /\ realm = "content"
    /\ t \in maskTimers
    /\ t.kind = "aiRescan"
    /\ SetUi(IF activeInput = Null THEN UiState
             ELSE ScanWithAi(Started(UiState, TimerScan(UiState, "aiRescan", activeInput, t.text)),
                             TimerScan(UiState, "aiRescan", activeInput, t.text)))
    /\ maskTimers' = maskTimers \ {t}
    /\ lastCall' = "ui"
    /\ UNCHANGED <<scanFixed, contextMenuInput, fieldText, now, edits, maskLog, badgeCalls>>

\* the timer of debouncedScan (800 ms) fires for the text the input event
\* carried, after the timers of 10 ms that were started with it:
\* the remote scan is made when the scan gate accepts the text and
\* hasSignificantChange(lastScannedText, text) holds; otherwise
\* getCachedResult(text) of the optimizer, whose cache handleAnonymize
\* clears, gives the remote detections
DebounceTimer(t, significant) ==
    /\ realm = "content"
    /\ t \in maskTimers
    /\ t.kind = "debounce"
    /\ \A other \in maskTimers : other.kind \notin {"blur", "focus"}
    /\ SetUi(StartScan(UiState, TimerScan(UiState, "input", t.input, t.text),
                       autoAiScan /\ ShouldScan(t.text) /\ significant))
    /\ maskTimers' = maskTimers \ {t}
    /\ lastCall' = "ui"
    /\ UNCHANGED <<scanFixed, contextMenuInput, fieldText, now, edits, maskLog, badgeCalls>>

(***************************************************************************)
(* The scan gate called on a text, and the AI scan button of the badge.    *)
(***************************************************************************)
\* performAiScan tests shouldScanText(text) first
ShouldScanTextCall(text) ==
    /\ realm = "content"
    /\ gateLog' = [called |-> TRUE, text |-> text, result |-> shouldScanText(text)]
    /\ lastCall' = "cGate"
    /\ UNCHANGED <<cApiClient, cQueue, cProcessing, cDeliveries, cHanded, cFailed,
                   bgVars, nextItem, failures, realm, detVars>>
    /\ UNCHANGED <<autoAiScan, activeInput, focused, contextMenuInput, fieldText,
                   indicator, blurTimer, aiScanCache, now, scans, started, calls, edits,
                   scanElement, scanExpected, scanFiltered, maskTimers, maskLog,
                   badgeCalls, aiScan>>

\* handleAiScan of SimpleWarningBadge, the click handler of its AI scan
\* button, up to its await: without an API client it throws and catches;
\* with one it calls analyzeContext(inputText) for the text the badge or the
\* dot was rendered with
BadgeAiScan ==
    /\ realm = "content"
    /\ indicator.kind # "none"
    /\ Len(badgeCalls) < MaxBadgeScans
    /\ IF cApiClient
       THEN /\ badgeCalls' = Append(badgeCalls, indicator.inputText)
            /\ scans' = scans \cup
                  {[id |-> 0, trigger |-> "badge", input |-> indicator.field,
                    text |-> indicator.inputText, results |-> <<>>,
                    stage |-> "badgeAnalyze", ai |-> AiNull, abandoned |-> FALSE]}
       ELSE UNCHANGED <<badgeCalls, scans>>
    /\ lastCall' = "ui"
    /\ UNCHANGED <<scanFixed, cQueue, cProcessing, cDeliveries, cHanded, nextItem,
                   activeInput, focused, contextMenuInput, fieldText, indicator,
                   blurTimer, aiScanCache, now, started, calls, edits, maskTimers,
                   maskLog>>

\* analyzeContext resolves in handleAiScan: setAiDetections(result.detections)
\* in the component, when it is still mounted
BadgeAnalyzeResolved(sc, detections) ==
    /\ realm = "content"
    /\ sc \in scans
    /\ sc.stage = "badgeAnalyze"
    /\ scans' = scans \ {sc}
    /\ indicator' = IF indicator.kind = "none" THEN indicator
                    ELSE [indicator EXCEPT !.ai = AiOf(detections)]
    /\ lastCall' = "ui"
    /\ UNCHANGED <<scanFixed, cQueue, cProcessing, cDeliveries, cHanded, nextItem,
                   activeInput, focused, contextMenuInput, fieldText, blurTimer,
                   aiScanCache, now, started, calls, edits, maskTimers, maskLog,
                   badgeCalls>>

\* analyzeContext rejects in handleAiScan: the catch block sets the error
\* message of the component
BadgeAnalyzeRejected(sc) ==
    /\ realm = "content"
    /\ sc \in scans
    /\ sc.stage = "badgeAnalyze"
    /\ scans' = scans \ {sc}
    /\ lastCall' = "ui"
    /\ UNCHANGED <<scanFixed, cQueue, cProcessing, cDeliveries, cHanded, nextItem,
                   activeInput, focused, contextMenuInput, fieldText, indicator,
                   blurTimer, aiScanCache, now, started, calls, edits, maskTimers,
                   maskLog, badgeCalls>>

(***************************************************************************)
(* performAiScan with local detection (src/unnamed/part_000): the          *)
(* high-confidence patterns are matched in the page, their matches are     *)
(* redacted from the text sent to analyzeContext, and the handlers render  *)
(* the pattern detections before they call performAiScan.  aiScan is the   *)
(* invocation of performAiScan: one is made at a time, and the next can    *)
(* start when it has returned.                                             *)
(***************************************************************************)
\* highConfidencePatterns, in order, restricted to the patterns that can
\* match a text of the model (the HIPAA, PCI-DSS and GDPR patterns need a
\* keyword, a track separator, or two capitals and two digits after a word
\* boundary)
highConfidencePatterns ==
    <<[type |-> "API_KEY",     pattern |-> [kind |-> "apikey"]],
      [type |-> "AWS_KEY",     pattern |-> [kind |-> "awskey"]],
      [type |-> "PRIVATE_KEY", pattern |-> [kind |-> "privatekey"]],
      [type |-> "SSN",         pattern |-> [kind |-> "ssn"]],
      [type |-> "CREDIT_CARD", pattern |-> [kind |-> "card"]]>>

\* the matches of one pattern of detectLocally: pattern.lastIndex = 0 and
\* text.matchAll(pattern); match.index !== undefined holds for every match
LocalMatches(type, text, ms) ==
    [i \in 1..Len(ms) |->
        [type  |-> type,
         value |-> Substring(text, ms[i].index, ms[i].end),
         start |-> ms[i].index,
         end   |-> ms[i].end]]

RECURSIVE LocalMatchesFrom(_, _, _)
LocalMatchesFrom(patterns, i, text) ==
    IF i > Len(patterns) THEN <<>>
    ELSE LocalMatches(patterns[i].type, text, MatchAll(patterns[i].pattern, text))
            \o LocalMatchesFrom(patterns, i + 1, text)

\* detections.filter((result, index, self) => index === self.findIndex(...)):
\* the first detection of each type, value and start
RECURSIVE FirstOfEach(_, _)
FirstOfEach(detections, i) ==
    IF i > Len(detections) THEN <<>>
    ELSE (IF \E j \in 1..(i - 1) :
                /\ detections[j].type = detections[i].type
                /\ detections[j].value = detections[i].value
                /\ detections[j].start = detections[i].start
          THEN <<>> ELSE <<detections[i]>>)
            \o FirstOfEach(detections, i + 1)

\* detectLocally(text, patterns)
detectLocally(text, patterns) == FirstOfEach(LocalMatchesFrom(patterns, 1, text), 1)

\* the characters of a type name
TypeChars(type) ==
    CASE type = "API_KEY"     -> <<"A", "P", "I", "_", "K", "E", "Y">>
      [] type = "AWS_KEY"     -> <<"A", "W", "S", "_", "K", "E", "Y">>
      [] type = "PRIVATE_KEY" -> <<"P", "R", "I", "V", "A", "T", "E", "_", "K", "E", "Y">>
      [] type = "SSN"         -> <<"S", "S", "N">>
      [] type = "CREDIT_CARD" -> <<"C", "R", "E", "D", "I", "T", "_", "C", "A", "R", "D">>

\* "[REDACTED_"
M_REDACTED_TYPE == <<"[", "R", "E", "D", "A", "C", "T", "E", "D", "_">>

\* the template string [REDACTED_${detection.type}]
Redaction(type) == M_REDACTED_TYPE \o TypeChars(type) \o <<"]">>

\* [...detections].sort((a, b) => (b.start || 0) - (a.start || 0)): d is put
\* after the detections of sorted that start at or after it (the sort is
\* stable)
RECURSIVE InsertByStart(_, _)
InsertByStart(sorted, d) ==
    IF sorted = <<>> THEN <<d>>
    ELSE IF Head(sorted).start >= d.start
         THEN <<Head(sorted)>> \o InsertByStart(Tail(sorted), d)
         ELSE <<d>> \o sorted

RECURSIVE SortByStartDescending(_)
SortByStartDescending(detections) ==
    IF detections = <<>> THEN <<>>
    ELSE InsertByStart(SortByStartDescending(SubSeq(detections, 1, Len(detections) - 1)),
                       detections[Len(detections)])

\* one turn of the loop of redactSecrets: before + redaction + after, the
\* offsets being those of the detection in the text that was scanned
\* (substring clamps them to the length of redactedText)
RedactOne(redactedText, detection) ==
    SubSeq(redactedText, 1, Min(detection.start, Len(redactedText)))
        \o Redaction(detection.type)
        \o SubSeq(redactedText, Min(detection.end, Len(redactedText)) + 1,
                  Len(redactedText))

RECURSIVE RedactEach(_, _)
RedactEach(redactedText, sorted) ==
    IF sorted = <<>> THEN redactedText
    ELSE RedactEach(RedactOne(redactedText, Head(sorted)), Tail(sorted))

\* redactSecrets(text, detections)
redactSecrets(text, detections) ==
    IF Len(detections) = 0 THEN text
    ELSE RedactEach(text, SortByStartDescending(detections))

\* localDetections.filter(localDet => !existingPatternDetections.some(...))
UniqueLocalDetections(localDetections, existingPatternDetections) ==
    SelectSeq(localDetections, LAMBDA localDet :
        ~\E i \in 1..Len(existingPatternDetections) :
            existingPatternDetections[i].value = localDet.value)

\* uniqueLocalDetections.map(d => ({type, value, confidence: 100, ...,
\* source: 'local'}))
LocalAsAi(uniqueLocalDetections) ==
    [i \in 1..Len(uniqueLocalDetections) |->
        [type   |-> uniqueLocalDetections[i].type,
         value  |-> uniqueLocalDetections[i].value,
         source |-> "local"]]

\* detections.map(d => ({...d, source: 'ai'}))
RemoteAsAi(detections) ==
    [i \in 1..Len(detections) |->
        [type |-> detections[i].type, value |-> detections[i].value, source |-> "ai"]]

\* the filter of performAiScan on a detection's value, which also rejects
\* a value that holds "[REDACTED_"
IsRedactionMarkerOrTyped(value) ==
    IsRedactionMarker(value) \/ Includes(value, M_REDACTED_TYPE)

\* allDetections.filter(...) of performAiScan
FilterMarkers(allDetections) ==
    SelectSeq(allDetections, LAMBDA d : ~IsRedactionMarkerOrTyped(d.value))

\* aiScanOptimizer.getCachedResult(text): the detections cacheResult stored
\* for the same text, null when there are none
GetCachedResult(cached, text) ==
    IF \E i \in 1..Len(cached) : cached[i].text = text
    THEN AiOf(cached[Max({i \in 1..Len(cached) : cached[i].text = text})].detections)
    ELSE AiNull

NoAiScan == [stage |-> "idle", cached |-> <<>>]

\* the element of each field: f2 is a field for a social security number
ElementOf(f) == IF f = "f2" THEN E_SSN ELSE E_PLAIN

\* shouldSkipAiForInput(element)
shouldSkipAiForInput(element) == getExpectedInputType(element) # {}

\* the .then callback of a handler: handleDetection(filteredResults,
\* aiDetections)
AiScanReturned(u, a) ==
    [u |-> handleDetection(u, [a.scan EXCEPT !.trigger = "then", !.ai = a.returned]),
     a |-> a]

\* performAiScan from the cache lookup that found nothing on, up to its
\* first await or its return: local is localDetections, unique
\* uniqueLocalDetections and sent redactedText
AfterCacheMiss(u, found, unique, sent) ==
    IF \E i \in 1..Len(unique) : unique[i].type \in {"PRIVATE_KEY", "AWS_KEY"}
    THEN [u |-> u, a |-> [found EXCEPT !.stage = "localTeam"]]
    ELSE IF ~cApiClient
    THEN AiScanReturned(u, [found EXCEPT !.failed = TRUE])
    ELSE [u |-> [u EXCEPT !.calls = Append(@, [scan |-> found.scan.id, text |-> sent,
                                               time |-> now])],
          a |-> [found EXCEPT !.stage = "analyze", !.called = TRUE, !.sent = sent]]

\* the invocation of performAiScan that has returned null without a call
ReturnedNull(a, sc) ==
    [stage |-> "returned", scan |-> sc, local |-> <<>>, unique |-> <<>>,
     called |-> FALSE, sent |-> <<>>, failed |-> FALSE, fromCache |-> FALSE,
     response |-> <<>>, filtered |-> <<>>, returned |-> AiNull, cached |-> a.cached]

\* performAiScan(input, text, existingPatternDetections), sc.results being
\* existingPatternDetections, up to its first await or its return
PerformAiScanStart(u, a, sc) ==
    IF \/ ~shouldScanText(sc.text)
       \/ isAlreadyRedacted(sc.text) /\ ~hasMinimalContent(sc.text)
    THEN AiScanReturned(u, ReturnedNull(a, sc))
    ELSE IF ~GetCachedResult(a.cached, sc.text).isNull
    THEN AiScanReturned(u, [ReturnedNull(a, sc) EXCEPT
                                !.fromCache = TRUE,
                                !.returned = GetCachedResult(a.cached, sc.text)])
    ELSE CHOOSE r \in
            {AfterCacheMiss(u,
                            [ReturnedNull(a, sc) EXCEPT
                                !.local = local,
                                !.unique = UniqueLocalDetections(local, sc.results)],
                            UniqueLocalDetections(local, sc.results),
                            redactSecrets(sc.text, local)) :
                local \in {detectLocally(sc.text, highConfidencePatterns)}} : TRUE

\* the pattern part of a handler (debouncedScan, the paste and focusin
\* listeners): getExpectedInputType, detectPii and filterExpectedDetections
PatternScan(u, trigger, f) ==
    [NewScan(u, trigger, f) EXCEPT
        !.results = filterExpectedDetections(detectPii(fieldText[f], customPatterns),
                                             getExpectedInputType(ElementOf(f)))]

\* whether a handler run for field f calls performAiScan
CallsPerformAiScan(f) ==
    autoAiScan /\ ~shouldSkipAiForInput(ElementOf(f)) /\ ShouldScan(fieldText[f])

aiScanFixed == <<cApiClient, cFailed, bgVars, failures, realm, detVars, autoAiScan,
                 scanElement, scanExpected, scanFiltered, gateLog, maskTimers, maskLog,
                 badgeCalls, contextMenuInput, fieldText, now, edits>>

\* a handler from handleDetection(filteredResults, null) on: the pattern
\* detections are rendered, and performAiScan is called when the setting, the
\* field and the scan gate allow it
RenderThenAi(shown, sc) ==
    \E r \in {IF CallsPerformAiScan(sc.input)
              THEN PerformAiScanStart(shown, aiScan, sc)
              ELSE [u |-> shown, a |-> aiScan]} :
        SetUi(r.u) /\ aiScan' = r.a

\* the focusin listener for a valid input: removeAllIndicators(),
\* activeInput = target, and the scan
FocusInScan(f) ==
    /\ realm = "content"
    /\ focused # f
    /\ CallsPerformAiScan(f) => aiScan.stage \in {"idle", "returned"}
    /\ \E sc \in {PatternScan(UiState, "focusin", f)} :
          \E shown \in {handleDetection(
                           Started(SetActiveInput(removeAllIndicators(
                                       [FocusOutListener(UiState) EXCEPT !.focused = f]), f),
                                   sc),
                           sc)} :
              RenderThenAi(shown, sc)
    /\ lastCall' = "ui"
    /\ UNCHANGED aiScanFixed

\* the timer of debouncedScan fires for an input event of the active field
DebouncedScan(f) ==
    /\ realm = "content"
    /\ activeInput = f
    /\ CallsPerformAiScan(f) => aiScan.stage \in {"idle", "returned"}
    /\ \E sc \in {PatternScan(UiState, "input", f)} :
          \E shown \in {handleDetection(Started(UiState, sc), sc)} :
              RenderThenAi(shown, sc)
    /\ lastCall' = "ui"
    /\ UNCHANGED aiScanFixed

\* the second timer of handleAnonymize fires, 500 ms after the first read
\* currentValue and found that the setting, the field and the scan gate allow
\* a remote scan: freshFiltered is computed from the value the field has now,
\* and performAiScan(activeInput, currentValue, freshFiltered) is awaited
FreshAiScanTimer(currentValue) ==
    /\ realm = "content"
    /\ activeInput # Null
    /\ autoAiScan /\ ~shouldSkipAiForInput(ElementOf(activeInput)) /\ ShouldScan(currentValue)
    /\ aiScan.stage \in {"idle", "returned"}
    /\ \E sc \in {[NewScan(UiState, "fresh", activeInput) EXCEPT
                       !.text = currentValue,
                       !.results = filterExpectedDetections(
                                       detectPii(fieldText[activeInput], customPatterns),
                                       getExpectedInputType(ElementOf(activeInput)))]} :
          \E r \in {PerformAiScanStart(Started(UiState, sc), aiScan, sc)} :
              SetUi(r.u) /\ aiScan' = r.a
    /\ lastCall' = "ui"
    /\ UNCHANGED aiScanFixed

\* performAiScan from cacheResult on, and the handler that awaited it
CacheResultAndReturn(u, a) ==
    AiScanReturned(u, [a EXCEPT !.stage = "returned",
                                !.returned = AiOf(a.filtered),
                                !.cached = Append(@, [text |-> a.scan.text,
                                                      detections |-> a.filtered])])

\* analyzeContext resolves with detections: the unique local detections and
\* the remote ones are combined and filtered; getCurrentTeamId is awaited
\* when a detection is left
AiScanAnalyzeResolved(detections) ==
    /\ realm = "content"
    /\ aiScan.stage = "analyze"
    /\ \E a \in {[aiScan EXCEPT
                      !.response = detections,
                      !.filtered = FilterMarkers(LocalAsAi(aiScan.unique)
                                                    \o RemoteAsAi(detections))]} :
          \E r \in {IF Len(a.filtered) > 0
                    THEN [u |-> UiState, a |-> [a EXCEPT !.stage = "team"]]
                    ELSE CacheResultAndReturn(UiState, a)} :
              SetUi(r.u) /\ aiScan' = r.a
    /\ lastCall' = "ui"
    /\ UNCHANGED aiScanFixed

\* getCurrentTeamId resolves after the remote response: every detection is
\* added to detectionQueue, the result is cached and returned
AiScanTeamResolved ==
    /\ realm = "content"
    /\ aiScan.stage = "team"
    /\ \E r \in {CacheResultAndReturn(AddItems(UiState, Len(aiScan.filtered)), aiScan)} :
          SetUi(r.u) /\ aiScan' = r.a
    /\ lastCall' = "ui"
    /\ UNCHANGED aiScanFixed

\* getCurrentTeamId resolves after a private key or an AWS key was found and
\* no pattern detection has its value: the unique local detections are added
\* to detectionQueue and returned, and analyzeContext is not called
AiScanLocalTeamResolved ==
    /\ realm = "content"
    /\ aiScan.stage = "localTeam"
    /\ \E r \in {AiScanReturned(AddItems(UiState, Len(aiScan.unique)),
                               [aiScan EXCEPT !.stage = "returned",
                                              !.returned = AiOf(LocalAsAi(aiScan.unique))])} :
          SetUi(r.u) /\ aiScan' = r.a
    /\ lastCall' = "ui"
    /\ UNCHANGED aiScanFixed

\* the catch block of performAiScan with a call of cacheResult(text, [])
CatchCachesNothingFound(a) ==
    [a EXCEPT !.stage = "returned", !.failed = TRUE, !.returned = AiNull,
              !.cached = Append(@, [text |-> a.scan.text, detections |-> <<>>])]

\* the catch block of performAiScan: return null
Catch(a) == [a EXCEPT !.stage = "returned", !.failed = TRUE, !.returned = AiNull]

\* analyzeContext rejects: performAiScan catches and returns null
AiScanAnalyzeRejected ==
    /\ realm = "content"
    /\ aiScan.stage = "analyze"
    /\ \E r \in {AiScanReturned(UiState, Catch(aiScan))} :
          SetUi(r.u) /\ aiScan' = r.a
    /\ lastCall' = "ui"
    /\ UNCHANGED aiScanFixed

\* the content script after main() registered its listeners
InitUi ==
    /\ activeInput = Null
    /\ focused = Null
    /\ contextMenuInput = Null
    /\ indicator = NoIndicator
    /\ blurTimer = FALSE
    /\ aiScanCache = <<>>
    /\ now = 0
    /\ scans = {}
    /\ started = <<>>
    /\ calls = <<>>
    /\ edits = 0
    /\ scanElement = E_PLAIN
    /\ scanExpected = {}
    /\ scanFiltered = <<>>
    /\ maskTimers = {}
    /\ maskLog = NoMask
    /\ badgeCalls = <<>>
    /\ gateLog = NoGate
    /\ aiScan = NoAiScan

\* a page whose fields hold a short text, with the default of the setting
\* local:autoAiScan
InitScan ==
    /\ InitUi
    /\ autoAiScan = TRUE
    /\ fieldText = [f \in Fields |-> T_SHORT]

(***************************************************************************)
(* Initial state: both queues empty, no API client yet.                    *)
(***************************************************************************)
InitQueueState ==
    /\ cQueue = <<>> /\ cProcessing = FALSE
    /\ cDeliveries = <<>> /\ cHanded = <<>> /\ cFailed = {}
    /\ bApiClient = FALSE /\ bQueue = <<>> /\ bProcessing = FALSE
    /\ bDeliveries = <<>> /\ bHanded = <<>> /\ bFailed = {}
    /\ nextItem = 0 /\ failures = 0 /\ lastCall = "init"

InitQueues ==
    /\ realm \in {"content", "background"}
    /\ cApiClient = FALSE
    /\ InitQueueState

Init == InitQueues /\ InitDetect /\ InitScan

(***************************************************************************)
(* SpecQueues: the two telemetry queues, each in its own process.          *)
(***************************************************************************)
NextQueues ==
    \/ ContentAdd(MaxItems)
    \/ ContentFlushCall
    \/ \E k \in 1..Len(cDeliveries), fetchOk \in BOOLEAN : ContentDeliveryDone(k, fetchOk)
    \/ ContentInitializeApiClient
    \/ BgAdd
    \/ BgFlushCall
    \/ \E k \in 1..Len(bDeliveries), fetchOk \in BOOLEAN : BgDeliveryDone(k, fetchOk)
    \/ BgInitializeApiClient

SpecQueues == Init /\ [][NextQueues]_vars

(***************************************************************************)
(* SpecSignedOut: the content script of a user who never signs in, so that *)
(* getApiClient() stays null: handlers add, the timer flushes.             *)
(***************************************************************************)
NextSignedOut ==
    \/ ContentAdd(MaxContentAdds)
    \/ ContentFlushCall

InitSignedOut == Init /\ realm = "content"

SpecSignedOut == InitSignedOut /\ [][NextSignedOut]_vars

(***************************************************************************)
(* SpecDetect: the content script loads custom patterns and scans texts.   *)
(***************************************************************************)
NextDetect ==
    \/ AuthTokenChanged
    \/ InitialLoad
    \/ \E patterns \in PatternLists : GetPatternsResolved(patterns)
    \/ GetPatternsRejected
    \/ \E text \in Texts : DetectPiiCall(text)

SpecDetect == InitSignedOut /\ [][NextDetect]_vars

\* the content script registering the pattern lists and scanning the texts of
\* the shape checks
NextShapes ==
    \/ InitialLoad
    \/ \E patterns \in ShapePatternLists : GetPatternsResolved(patterns)
    \/ \E text \in ShapeTexts : DetectPiiCall(text)

\* the content script of a signed-in user
InitShapes == InitSignedOut /\ hasToken

SpecShapes == InitShapes /\ [][NextShapes]_vars

(***************************************************************************)
(* SpecExpected: the content script loads custom patterns and scans the    *)
(* texts of fields that expect categories.                                 *)
(***************************************************************************)
NextExpected ==
    \/ InitialLoad
    \/ \E patterns \in ExpectedPatternLists : GetPatternsResolved(patterns)
    \/ \E element \in Elements, text \in ExpectedTexts : FilteredScanCall(element, text)

SpecExpected == InitShapes /\ [][NextExpected]_vars

(***************************************************************************)
(* SpecMask: the content script scans a field and the user masks what the  *)
(* badge shows.                                                            *)
(***************************************************************************)
T_REACH == <<"r", "e", "a", "c", "h", " ", "m", "e", " ", "a", "t", " ", "j", ".", "d", "o", "e",
             "@", "e", "x", "a", "m", "p", "l", "e", ".", "c", "o", "m">>
S_AMEX_GROUPED == <<"3", "7", "8", "2", " ", "8", "2", "2", "4", "6", "3", " ", "1", "0", "0", "0", "5">>
S_CVV == <<"5", "5", "5">>
T_BOTH == S_EMAIL \o S_SPACE \o S_SSN

\* the values of the field
MaskTexts ==
    {T_REACH, S_EMAIL, S_SSN, S_PHONE, N_VISA, S_VISA_SPACED, S_AMEX_GROUPED, T_BOTH, S_EMP}

\* the pages: the value of the field and the setting local:autoAiScan
MaskPages ==
    {[text |-> text, autoAiScan |-> FALSE] : text \in MaskTexts}
        \cup {[text |-> T_REACH, autoAiScan |-> TRUE]}

\* custom patterns that declare the category of card numbers written in
\* groups, of an identifier and of a security code
P_SPACED == Pattern("spaced", S_VISA_SPACED, "CREDIT_CARD")
P_GROUPED == Pattern("grouped", S_AMEX_GROUPED, "CREDIT_CARD")
P_EMPSSN == Pattern("empssn", S_EMP, "SSN")
P_CVV == Pattern("cvv", S_CVV, "CREDIT_CARD")

\* the lists getPatterns returns
MaskPatternLists == {<<P_SPACED, P_GROUPED, P_BOTH, P_EMPSSN, P_CVV>>}

\* the fields the user focuses
MaskFields == {"f1"}

\* result.detections of a response of analyzeContext
MaskAiResponses == {<<D_NAME>>}

\* the patterns are loaded before the user focuses the field
NextMask ==
    \/ started = <<>> /\ InitialLoad
    \/ \E patterns \in MaskPatternLists : started = <<>> /\ GetPatternsResolved(patterns)
    \/ \E f \in MaskFields : FocusIn(f)
    \/ BlurTimerFires
    \/ \E sc \in scans, detections \in MaskAiResponses : AnalyzeResolved(sc, detections)
    \/ \E sc \in scans : AiTeamResolved(sc)
    \/ \E sc \in scans : AnalyzeRejected(sc)
    \/ \E sc \in scans : TeamResolved(sc)
    \/ \E detections \in BadgeRequests(indicator) : HandleAnonymize(detections)
    \/ \E sc \in scans : AnonymizeTeamResolved(sc)
    \/ \E t \in maskTimers : MaskBlurTimer(t)
    \/ \E t \in maskTimers : MaskFocusTimer(t)
    \/ \E t \in maskTimers : RescanTimer(t)
    \/ \E t \in maskTimers : AiRescanTimer(t)
    \/ \E t \in maskTimers, significant \in BOOLEAN : DebounceTimer(t, significant)

\* a page with one field that holds a value to mask, for a signed-in user
InitMaskPage ==
    /\ realm = "content"
    /\ InitQueueState
    /\ InitDetect
    /\ hasToken
    /\ cApiClient = hasToken
    /\ InitUi
    /\ \E page \in MaskPages :
          /\ autoAiScan = page.autoAiScan
          /\ fieldText = [f \in Fields |-> IF f = "f1" THEN page.text ELSE T_SHORT]

SpecMask == InitMaskPage /\ [][NextMask]_vars

(***************************************************************************)
(* SpecScan: the content script scans the fields of a page.                *)
(***************************************************************************)
NextScan ==
    \/ \E f \in Fields : FocusIn(f)
    \/ Blur
    \/ BlurTimerFires
    \/ \E target \in Fields : ContextMenu(target)
    \/ ManualRescan
    \/ \E f \in Fields, text \in ScanTexts : EditText(f, text)
    \/ Tick
    \/ \E sc \in scans, detections \in AiResponses : AnalyzeResolved(sc, detections)
    \/ \E sc \in scans : AiTeamResolved(sc)
    \/ \E sc \in scans : AnalyzeRejected(sc)
    \/ \E sc \in scans : TeamResolved(sc)

\* a page with a field worth a remote scan and one that is not, any value of
\* the setting; main() has called initializeApiClient when storage held a
\* token
InitScanPage ==
    /\ realm = "content"
    /\ InitQueueState
    /\ InitDetect
    /\ cApiClient = hasToken
    /\ InitUi
    /\ autoAiScan \in BOOLEAN
    /\ fieldText = [f \in Fields |-> IF f = "f1" THEN T_A ELSE T_SHORT]

SpecScan == InitScanPage /\ [][NextScan]_vars

(***************************************************************************)
(* SpecGate: shouldScanText is called on texts around its limits, and the  *)
(* content script scans the fields of a page whose user also asks the      *)
(* badge for an AI scan.                                                   *)
(***************************************************************************)
\* a text of n characters with 6 distinct characters, none of them a blank
\* at either end
LongCycle == <<"a", "b", "c", "d", "e", " ">>
LongText(n) == [i \in 1..n |-> LongCycle[((i - 1) % 6) + 1]]

\* a text of n characters taken in turn from chars
Cycle(chars, n) == [i \in 1..n |-> chars[((i - 1) % Len(chars)) + 1]]

\* the texts around the limits of the gate: the minimum length with and
\* without blanks around, the maximum length, and 20 and 21 characters with
\* 1, 4 and 5 distinct characters
LimitTexts ==
    {Cycle(<<"1", "2", "3">>, 9), Cycle(<<"1", "2", "3">>, 10),
     Repeat(" ", 12), Repeat(" ", 3) \o S_EMP \o Repeat(" ", 4),
     Repeat(" ", 3) \o S_SSN \o Repeat(" ", 4),
     Repeat("1", 20), Repeat("1", 21),
     Cycle(<<"1", "2", "3", "4">>, 20), Cycle(<<"1", "2", "3", "4">>, 21),
     Cycle(<<"1", "2", "3", "4", "5">>, 21),
     LongText(MAX_TEXT_LENGTH), LongText(MAX_TEXT_LENGTH + 1),
     Repeat("1", MAX_TEXT_LENGTH)}

\* the texts shouldScanText is called with
GateTexts ==
    LimitTexts \cup UNION {[1..n -> {"a", " "}] : n \in 0..MaxGateLen}

NextGate ==
    \/ \E text \in GateTexts : ~gateLog.called /\ started = <<>> /\ ShouldScanTextCall(text)
    \/ \E f \in Fields : FocusIn(f)
    \/ BlurTimerFires
    \/ \E target \in Fields : ContextMenu(target)
    \/ ManualRescan
    \/ \E sc \in scans, detections \in MaskAiResponses : AnalyzeResolved(sc, detections)
    \/ \E sc \in scans : AiTeamResolved(sc)
    \/ \E sc \in scans : AnalyzeRejected(sc)
    \/ \E sc \in scans : TeamResolved(sc)
    \/ BadgeAiScan
    \/ \E sc \in scans, detections \in MaskAiResponses : BadgeAnalyzeResolved(sc, detections)
    \/ \E sc \in scans : BadgeAnalyzeRejected(sc)

\* a page of a signed-in user with the default of the setting, one field
\* holding a text the gate accepts and one a text it rejects
InitGatePage ==
    /\ InitScanPage
    /\ hasToken
    /\ autoAiScan

SpecGate == InitGatePage /\ [][NextGate]_vars

(***************************************************************************)
(* SpecSweep: the content script scans the fields of a page while time     *)
(* passes and the setInterval timer of the queue keeps calling flush().    *)
(***************************************************************************)
NextSweep ==
    \/ \E f \in Fields : FocusIn(f)
    \/ BlurTimerFires
    \/ Tick
    \/ \E sc \in scans, detections \in AiResponses : AnalyzeResolved(sc, detections)
    \/ \E sc \in scans : AiTeamResolved(sc)
    \/ \E sc \in scans : AnalyzeRejected(sc)
    \/ \E sc \in scans : TeamResolved(sc)
    \/ ContentFlushCall
    \/ \E k \in 1..MaxItems, fetchOk \in BOOLEAN : ContentDeliveryDone(k, fetchOk)

\* a signed-in user with automatic AI scans
InitSweepPage == InitScanPage /\ hasToken /\ autoAiScan

\* the clock advances, and the timer set by setInterval(() => this.flush(),
\* FLUSH_INTERVAL) fires again and again
SpecSweep ==
    InitSweepPage /\ [][NextSweep]_vars /\ WF_vars(Tick) /\ WF_vars(ContentFlushCall)

(***************************************************************************)
(* SpecFlush: the content script of a signed-in user: handlers add items,  *)
(* the setInterval timer keeps calling flush(), and every awaited          *)
(* logDetectionsBatch settles.                                             *)
(***************************************************************************)
NextFlush ==
    \/ ContentAdd(MaxItems)
    \/ ContentFlushCall
    \/ \E k \in 1..Len(cDeliveries), fetchOk \in BOOLEAN : ContentDeliveryDone(k, fetchOk)

\* main() has called initializeApiClient with the token in storage
InitFlush ==
    /\ realm = "content"
    /\ InitQueueState
    /\ InitDetect /\ hasToken
    /\ cApiClient = hasToken
    /\ InitScan

\* the timer of setInterval(() => this.flush(), FLUSH_INTERVAL) fires again
\* and again, and the request of a delivery ends, with a response or an error
SpecFlush ==
    /\ InitFlush /\ [][NextFlush]_vars
    /\ WF_vars(ContentFlushCall)
    /\ WF_vars(\E k \in 1..Len(cDeliveries), fetchOk \in BOOLEAN :
                  ContentDeliveryDone(k, fetchOk))

(***************************************************************************)
(* SpecMerge: the content script of a user who belongs to teams loads the  *)
(* personal patterns and the patterns of the team policies, and scans.     *)
(***************************************************************************)
\* a pattern as a team policy holds it
PolicyPattern(id, name, chars, pattern_type) ==
    [id |-> id, name |-> name, pattern |-> [kind |-> "literal", chars |-> chars],
     pattern_type |-> pattern_type]

\* a team policy: enabled or not, with or without a patterns array
Policy(enabled, hasPatterns, patterns) ==
    [enabled |-> enabled, hasPatterns |-> hasPatterns, patterns |-> patterns]

\* team patterns with the id of the personal patterns P_EMP and P_OFF, and
\* one with an id of its own
R_EMP == PolicyPattern("p2", "team-emp", S_EMP, "EMPLOYEE_ID")
R_OFF == PolicyPattern("p4", "team-mail", S_EMAIL, "CUSTOM")
R_SSN == PolicyPattern("t1", "team-ssn", S_SSN, "EMPLOYEE_ID")

\* the lists getPatterns returns
PersonalLists == {<<>>, <<P_EMP>>, <<P_EMP, P_OFF>>, <<P_SSN>>}

\* the policies the getTeamPolicies calls return, flattened
PolicyLists ==
    {<<>>,
     <<Policy(TRUE, TRUE, <<R_EMP>>)>>,
     <<Policy(FALSE, TRUE, <<R_EMP>>)>>,
     <<Policy(TRUE, FALSE, <<>>)>>,
     <<Policy(TRUE, TRUE, <<R_SSN, R_EMP>>), Policy(TRUE, TRUE, <<R_OFF, R_EMP>>)>>}

MergeTexts == {S_EMP, S_SSN, S_EMAIL}

NextMerge ==
    \/ InitialLoad
    \/ \E personalPatterns \in PersonalLists, policies \in PolicyLists :
          TeamPoliciesResolved(personalPatterns, policies)
    \/ GetPatternsRejected
    \/ \E text \in MergeTexts : DetectPiiCall(text)

SpecMerge == InitShapes /\ [][NextMerge]_vars

(***************************************************************************)
(* SpecKeys: the content script scans texts that hold secret keys, with    *)
(* and without an "api_key" label before them.                             *)
(***************************************************************************)
\* "the key is "
S_THE_KEY_IS ==
    <<"t", "h", "e", " ", "k", "e", "y", " ", "i", "s", " ">>

\* the 24 alphanumeric characters of the keys
S_KEY24 ==
    <<"4", "e", "C", "3", "9", "H", "q", "L", "y", "j", "W", "D", "a", "r",
      "j", "t", "T", "1", "z", "d", "p", "7", "d", "c">>

\* 24 times "x" (the key of src/shared/pii-detector.test.ts)
S_X24 == [i \in 1..24 |-> "x"]

S_SK_LIVE == <<"s", "k", "_", "l", "i", "v", "e", "_">>
S_SK_TEST == <<"s", "k", "_", "t", "e", "s", "t", "_">>
S_PK == <<"p", "k", "_">>
S_RK == <<"r", "k", "_">>

\* "api_key=" and "API Key: " (the latter has a space inside the label)
S_API_KEY_EQ == <<"a", "p", "i", "_", "k", "e", "y", "=">>
S_APIKEY_COLON == <<"A", "P", "I", "K", "e", "y", ":", " ">>

\* the keys with a provider prefix
PrefixedKeys ==
    {S_SK_LIVE \o S_X24, S_SK_LIVE \o S_KEY24, S_SK_TEST \o S_KEY24,
     S_PK \o S_KEY24, S_RK \o S_KEY24}

\* the texts that hold a prefixed key and no label
UnlabelledKeyTexts ==
    PrefixedKeys \cup {S_THE_KEY_IS \o key : key \in PrefixedKeys}

\* the texts that hold a prefixed key after a label
LabelledKeyTexts ==
    {label \o key : label \in {S_API_KEY_EQ, S_APIKEY_COLON}, key \in PrefixedKeys}

KeyTexts == UnlabelledKeyTexts \cup LabelledKeyTexts \cup {S_EMP, S_SSN}

\* the prefixed key a text holds
KeyOf(text) ==
    CHOOSE key \in PrefixedKeys : Includes(text, key)

\* the custom patterns getPatterns returns
KeyPatternLists == {<<P_EMP>>, <<P_SSN>>, <<P_EMP, P_SSN>>}

NextKeys ==
    \/ InitialLoad
    \/ \E patterns \in KeyPatternLists : GetPatternsResolved(patterns)
    \/ \E text \in KeyTexts : DetectPiiCall(text)

SpecKeys == InitShapes /\ [][NextKeys]_vars

(***************************************************************************)
(* SpecRedact: the content script scans fields that hold keys, numbers and *)
(* an e-mail address, and analyzeContext answers, or rejects.              *)
(***************************************************************************)
S_ABCDEFGHIJ == <<"-", "a", "b", "c", "d", "e", "f", "g", "h", "i", "j">>

\* an API key after its label, with the digits of S_SSN in it
T_KEY_SSN == S_API_KEY_EQ \o S_SSN \o S_ABCDEFGHIJ

S_AWS_KEY ==
    <<"A", "K", "I", "A", "I", "O", "S", "F", "O", "D", "N", "N", "7", "E", "X", "A",
      "M", "P", "L", "E">>

T_AWS == <<"m", "y", " ", "k", "e", "y", " ">> \o S_AWS_KEY

T_PRIVATE ==
    S_BEGIN \o S_PRIVATE_KEY \o <<"M", "I", "I", "B">> \o S_END \o S_PRIVATE_KEY

\* a card number that luhnCheck rejects
T_BADCARD == <<"c", "a", "r", "d", " ">> \o N_BAD

\* the values of the first field
RedactTexts == {T_KEY_SSN, T_AWS, T_PRIVATE, T_BADCARD, T_BOTH}

D_EMAIL == [type |-> "EMAIL", value |-> S_EMAIL]
D_TYPED == [type |-> "SECRET", value |-> Redaction("SSN")]

\* result.detections of a response of analyzeContext
RedactResponses == {<<>>, <<D_EMAIL, D_TYPED, D_NAME, D_MARK>>}

\* the values the first timer of handleAnonymize read
FreshTexts == {T_AWS, T_PRIVATE}

\* the characters of text that no detection covers, from offset k on
RECURSIVE UncoveredFrom(_, _, _)
UncoveredFrom(text, detections, k) ==
    IF k >= Len(text) THEN <<>>
    ELSE (IF \E i \in 1..Len(detections) :
                detections[i].start <= k /\ k < detections[i].end
          THEN <<>> ELSE <<text[k + 1]>>)
            \o UncoveredFrom(text, detections, k + 1)

\* the types of highConfidencePatterns
HighConfidenceTypes ==
    {highConfidencePatterns[i].type : i \in 1..Len(highConfidencePatterns)}

\* text without the redactions [REDACTED_type] it holds, from offset k on
RECURSIVE WithoutRedactionsFrom(_, _)
WithoutRedactionsFrom(text, k) ==
    IF k >= Len(text) THEN <<>>
    ELSE IF \E type \in HighConfidenceTypes : LiteralAt(text, k, Redaction(type))
    THEN WithoutRedactionsFrom(text,
            k + Len(Redaction(CHOOSE type \in HighConfidenceTypes :
                                  LiteralAt(text, k, Redaction(type)))))
    ELSE <<text[k + 1]>> \o WithoutRedactionsFrom(text, k + 1)

\* part can be made from whole by deleting characters
RECURSIVE IsSubsequence(_, _)
IsSubsequence(part, whole) ==
    IF part = <<>> THEN TRUE
    ELSE IF whole = <<>> THEN FALSE
    ELSE IF Head(part) = Head(whole) THEN IsSubsequence(Tail(part), Tail(whole))
    ELSE IsSubsequence(part, Tail(whole))

NextRedact ==
    \/ \E f \in Fields : FocusInScan(f)
    \/ BlurTimerFires
    \/ \E f \in Fields : DebouncedScan(f)
    \/ \E currentValue \in FreshTexts : FreshAiScanTimer(currentValue)
    \/ \E detections \in RedactResponses : AiScanAnalyzeResolved(detections)
    \/ AiScanTeamResolved
    \/ AiScanLocalTeamResolved
    \/ AiScanAnalyzeRejected
    \/ \E sc \in scans : TeamResolved(sc)

\* a page whose first field holds one of the texts and whose second field
\* is a field for a social security number; main() has called
\* initializeApiClient when storage held a token (the page of the user who
\* is not signed in holds T_BOTH)
InitRedactPage ==
    /\ realm = "content"
    /\ InitQueueState
    /\ InitDetect
    /\ cApiClient = hasToken
    /\ InitUi
    /\ autoAiScan = TRUE
    /\ \E text \in RedactTexts :
          /\ ~hasToken => text = T_BOTH
          /\ fieldText = [f \in Fields |-> IF f = "f1" THEN text ELSE T_BOTH]

SpecRedact == InitRedactPage /\ [][NextRedact]_vars

(***************************************************************************)
(* SpecCache: the content script scans two fields whose texts differ in    *)
(* their first two characters, "Aa" and "BB".                              *)
(***************************************************************************)
S_LIVES == <<" ", "l", "i", "v", "e", "s", " ", "h", "e", "r", "e">>
T_AA == <<"A", "a">> \o S_LIVES
T_BB == <<"B", "B">> \o S_LIVES

\* the detection analyzeContext returns for T_AA
D_AA == [type |-> "NAME", value |-> <<"A", "a">>]

\* result.detections of a response of analyzeContext
CacheResponses == {<<>>, <<D_AA>>}

NextCache ==
    \/ \E f \in Fields : FocusIn(f)
    \/ BlurTimerFires
    \/ Tick
    \/ \E sc \in scans, detections \in CacheResponses : AnalyzeResolved(sc, detections)
    \/ \E sc \in scans : AiTeamResolved(sc)
    \/ \E sc \in scans : AnalyzeRejected(sc)
    \/ ContentFlushCall
    \/ \E k \in 1..Len(cDeliveries), fetchOk \in BOOLEAN : ContentDeliveryDone(k, fetchOk)

\* a signed-in user with automatic AI scans
InitCachePage ==
    /\ realm = "content"
    /\ InitQueueState
    /\ InitDetect /\ hasToken
    /\ cApiClient = hasToken
    /\ InitUi
    /\ autoAiScan = TRUE
    /\ fieldText = [f \in Fields |-> IF f = "f1" THEN T_AA ELSE T_BB]

SpecCache == InitCachePage /\ [][NextCache]_vars

(***************************************************************************)
(* Claims about the telemetry queues.                                      *)
(***************************************************************************)
InAnyBatch(i, deliveries) == \E k \in 1..Len(deliveries) : i \in Range(deliveries[k])

\* C4: the number of items queued in the content script's DetectionQueue
\* never exceeds a fixed capacity (the capacity the background queue keeps,
\* MAX_QUEUE_SIZE; the content script's queue declares none).
C4_ContentQueueWithinCapacity == Len(cQueue) <= MAX_QUEUE_SIZE

C6_ReentrantFlushIsNoOp ==
    /\ [](Len(cDeliveries) <= 1 /\ Len(bDeliveries) <= 1)
    /\ [][/\ lastCall' = "cFlushBusy" => UNCHANGED <<cQueue, cDeliveries, cHanded>>
          /\ lastCall' = "cAddBusy" =>
                /\ cQueue' = Append(cQueue, nextItem')
                /\ UNCHANGED <<cDeliveries, cHanded>>
          /\ lastCall' = "bFlushBusy" => UNCHANGED <<bQueue, bDeliveries, bHanded>>
          /\ lastCall' = "bAddBusy" =>
                /\ bQueue' = Append(bQueue, nextItem')
                /\ UNCHANGED <<bDeliveries, bHanded>>]_vars

\* C6 witness: the content script's flush was called while a delivery was in
\* flight and items were waiting; the delivery is still the only one.
C6_FlushCalledDuringDelivery ==
    /\ lastCall = "cFlushBusy"
    /\ Len(cDeliveries) = 1
    /\ Len(cQueue) > 0

\* the items of handed are in the order they were added (items are numbered
\* as they are added), each one once
InOrderOnce(handed) ==
    \A i, j \in 1..Len(handed) : i < j => handed[i] < handed[j]

\* C38: no item is in more than one batch handed to logDetectionsBatch, a
\* batch holds at most BATCH_SIZE items, and the items are handed over in the
\* order they were added, in the content script's queue and in the
\* background's, whatever the interleaving of add and flush.
C38_BatchesDisjointBoundedInOrder ==
    /\ InOrderOnce(cHanded) /\ InOrderOnce(bHanded)
    /\ \A i \in 1..nextItem : Count(i, cHanded) <= 1 /\ Count(i, bHanded) <= 1
    /\ \A k \in 1..Len(cDeliveries) : Len(cDeliveries[k]) <= BATCH_SIZE
    /\ \A k \in 1..Len(bDeliveries) : Len(bDeliveries[k]) <= BATCH_SIZE

\* C38 witness: more than BATCH_SIZE items waited in the content script's
\* queue; a full batch was handed over, the next item is in a second batch,
\* and a delivery of the first had failed.
C38_SecondBatchAfterFullOne ==
    /\ Len(cHanded) > BATCH_SIZE
    /\ Len(cDeliveries) = 1
    /\ cDeliveries[1] = <<cHanded[Len(cHanded)]>>
    /\ cFailed # {}

\* C37: with an API client and a flush timer that keeps firing, every item
\* added to the content script's queue is eventually out of the queue, and
\* whenever the processing flag is set it is eventually false again.
C37_QueueDrainsAndFlagClears ==
    /\ \A i \in 1..MaxItems : (i \in Range(cQueue)) ~> (i \notin Range(cQueue))
    /\ cProcessing ~> ~cProcessing

\* C37 witness: every item was added and handed over, some in a delivery that
\* failed and some in one that did not; the last delivery has settled, the
\* queue is empty and the flag is clear.
C37_DrainedAfterBusyAddAndFailure ==
    /\ nextItem = MaxItems /\ cQueue = <<>> /\ ~cProcessing
    /\ Len(cHanded) = MaxItems
    /\ cFailed # {} /\ cFailed # Range(cHanded)
    /\ lastCall = "cDone"

(***************************************************************************)
(* Claims about detectPii and the custom-pattern registry (SpecDetect).    *)
(***************************************************************************)
\* the custom patterns of a list whose RegExp compiles
Compiling(patterns) == SelectSeq(patterns, LAMBDA p : RegExpCompiles(p.pattern))

\* the detections of results that came from the built-in loop / from the
\* custom loop (only the custom loop sets patternName)
FromBuiltIn(r) == r.patternName = "undefined"
FromCustom(r) == r.patternName # "undefined"

\* C7: a custom matcher that throws at scan time does not abort the scan: it
\* contributes no span, and the scan returns what it returns without that
\* matcher registered, that is every built-in span and the spans of every
\* other custom matcher, earlier or later in the list.
C7_ThrowingMatcherIsolated ==
    /\ scanResult = detectPii(scanText, Compiling(scanPatterns))
    /\ \A i \in 1..Len(scanPatterns) :
          ~RegExpCompiles(scanPatterns[i].pattern)
              => \A j \in 1..Len(scanResult) :
                    scanResult[j].patternName # scanPatterns[i].name
    /\ \A i \in 1..Len(BuiltInResults(scanText)) :
          \E j \in 1..Len(scanResult) : scanResult[j] = BuiltInResults(scanText)[i]

\* C7 witness: a scan with a throwing matcher registered before a matcher
\* that compiles returned a built-in span and a span of the later matcher.
C7_ScanWithThrowingMatcher ==
    /\ lastCall = "cScan"
    /\ \E i, j \in 1..Len(scanPatterns) :
          /\ i < j
          /\ ~RegExpCompiles(scanPatterns[i].pattern)
          /\ \E r \in 1..Len(scanResult) :
                scanResult[r].patternName = scanPatterns[j].name
    /\ \E r \in 1..Len(scanResult) : FromBuiltIn(scanResult[r])

\* C8: after setCustomPatterns(list), no pattern that fails to compile is in
\* customPatterns, and every active pattern of the list that compiles is:
\* customPatterns is the active, compiling patterns of the list.
C8_NonCompilingPatternsExcluded ==
    customPatterns =
        SelectSeq(lastRegistered, LAMBDA p : IsActive(p) /\ RegExpCompiles(p.pattern))

\* C9: whenever getPatterns hands the content script a new list, customPatterns
\* becomes the active entries of that list, also when the list is empty.
C9_NewListReplacesWholesale ==
    customPatterns = SelectSeq(lastObtained, IsActive)

\* C10: the output of detectPii never holds both a built-in span and a
\* custom-sourced span with the same text at the same offset, whatever the
\* offset.
C10_CoincidingCustomDropped ==
    \A i, j \in 1..Len(scanResult) :
        ~ /\ FromBuiltIn(scanResult[i])
          /\ FromCustom(scanResult[j])
          /\ scanResult[i].value = scanResult[j].value
          /\ scanResult[i].start = scanResult[j].start


(***************************************************************************)
(* Claims about the categories, the order and the offsets of the spans     *)
(* detectPii returns (SpecShapes).                                         *)
(***************************************************************************)
\* the label the pattern named name declares, in patterns
DeclaredLabel(patterns, name) ==
    patterns[CHOOSE i \in 1..Len(patterns) : patterns[i].name = name].pattern_type

\* v has 13 to 19 digits and their Luhn total is a multiple of 10
LuhnValid(v) ==
    /\ Len(StripNonDigits(v)) \in 13..19
    /\ LuhnTotal(StripNonDigits(v)) % 10 = 0

\* the categories whose shape check accepts value, in the order of the checks
ShapesAccepting(value) ==
    SelectSeq(<<"SSN", "EMAIL", "PHONE", "CREDIT_CARD">>, LAMBDA t :
        CASE t = "SSN"   -> Test([kind |-> "ssn"], value)
          [] t = "EMAIL" -> Test([kind |-> "email"], value)
          [] t = "PHONE" -> Test([kind |-> "phone"], value)
          [] OTHER       -> Test([kind |-> "card"], value) /\ LuhnValid(value))

\* C11: a custom span whose value no shape check accepts has the category
\* CUSTOM when its pattern declares no label, CUSTOM or REGEX, and the label
\* its pattern declares otherwise.
C11_LabelKeptOrGeneric ==
    \A i \in 1..Len(scanResult) :
        (FromCustom(scanResult[i]) /\ ShapesAccepting(scanResult[i].value) = <<>>)
            => scanResult[i].type =
                 IF DeclaredLabel(scanPatterns, scanResult[i].patternName)
                        \in {"", "CUSTOM", "REGEX"}
                 THEN "CUSTOM"
                 ELSE DeclaredLabel(scanPatterns, scanResult[i].patternName)

\* C11 witness: a scan returned the span "EMP-7" of a pattern that declares
\* EMPLOYEE_ID, with that category, and a span of a pattern that declares
\* REGEX, with the category CUSTOM; no shape check accepts either value.
C11_DeclaredAndGenericLabels ==
    /\ \E i \in 1..Len(scanResult) :
          /\ scanResult[i].patternName = "id"
          /\ scanResult[i].value = S_EMP
          /\ scanResult[i].type = "EMPLOYEE_ID"
    /\ \E i \in 1..Len(scanResult) :
          /\ scanResult[i].patternName = "regex"
          /\ ShapesAccepting(scanResult[i].value) = <<>>
          /\ scanResult[i].type = "CUSTOM"

TableIndex(type) ==
    CHOOSE i \in 1..Len(BUILT_IN_PATTERNS) : BUILT_IN_PATTERNS[i].type = type

\* the position of the first pattern named name in patterns
RegistrationIndex(patterns, name) ==
    Min(Len(patterns),
        CHOOSE i \in 1..Len(patterns) :
            /\ patterns[i].name = name
            /\ \A j \in 1..(i - 1) : patterns[j].name # name)

\* the matches of pattern p of the custom set in text: none when it does not
\* compile
CustomMatches(p, text) ==
    IF RegExpCompiles(p.pattern) THEN Range(MatchAll(p.pattern, text)) ELSE {}

\* pattern p compiles and matches text from index to end
CustomMatch(p, text, index, end) ==
    [index |-> index, end |-> end] \in CustomMatches(p, text)

\* C13: detectPii returns no two spans with the same value, start and end;
\* every built-in span comes before every custom span; the built-in spans
\* are in the order of the table and the custom spans in the order of
\* registration; and of the custom patterns that match at the same offsets
\* the one registered first gives the span.
C13_UniqueOrderedSpans ==
    /\ \A i, j \in 1..Len(scanResult) :
          i < j =>
            /\ DedupKey(scanResult[i]) # DedupKey(scanResult[j])
            /\ FromCustom(scanResult[i]) => FromCustom(scanResult[j])
            /\ (FromBuiltIn(scanResult[i]) /\ FromBuiltIn(scanResult[j]))
                  => TableIndex(scanResult[i].type) <= TableIndex(scanResult[j].type)
            /\ (FromCustom(scanResult[i]) /\ FromCustom(scanResult[j]))
                  => RegistrationIndex(scanPatterns, scanResult[i].patternName)
                        <= RegistrationIndex(scanPatterns, scanResult[j].patternName)
    /\ \A i \in 1..Len(scanResult) :
          FromCustom(scanResult[i]) =>
            \A n \in 1..(RegistrationIndex(scanPatterns, scanResult[i].patternName) - 1) :
                ~CustomMatch(scanPatterns[n], scanText,
                             scanResult[i].start, scanResult[i].end)
    /\ \A n \in 1..Len(scanPatterns) :
          \A m \in CustomMatches(scanPatterns[n], scanText) :
              \/ CoincidesWithBuiltIn(BuiltInResults(scanText),
                                      Substring(scanText, m.index, m.end),
                                      m.index, m.end)
              \/ \E i \in 1..Len(scanResult) :
                    DedupKey(scanResult[i])
                        = <<Substring(scanText, m.index, m.end), m.index, m.end>>

\* C13 witness: two registered patterns match the text at the same offsets;
\* the scan returned a built-in span, then the span of the pattern registered
\* first, and no span of the other pattern.
C13_DuplicateDropped ==
    /\ Len(scanResult) = 2
    /\ FromBuiltIn(scanResult[1])
    /\ Len(scanPatterns) = 2
    /\ scanResult[2].patternName = scanPatterns[1].name
    /\ scanPatterns[2].name # scanPatterns[1].name
    /\ CustomMatch(scanPatterns[2], scanText, scanResult[2].start, scanResult[2].end)

\* C14: a call of detectPii that repeats the call before it, with the same
\* text and the same custom patterns, returns the same list, and the call
\* leaves the custom patterns as they were.
C14_RepeatedScanSameResult ==
    [][lastCall' = "cScanAgain"
          => (scanResult' = scanResult /\ customPatterns' = customPatterns)]_vars

\* C14 witness: a repeated call returned a built-in span and a custom span.
C14_ScannedTwice ==
    /\ lastCall = "cScanAgain"
    /\ \E i, j \in 1..Len(scanResult) :
          FromBuiltIn(scanResult[i]) /\ FromCustom(scanResult[j])

\* C15: no span that detectPii returns has an empty value.
C15_NoEmptyValue ==
    \A i \in 1..Len(scanResult) : scanResult[i].value # <<>>

\* C16: a span that detectPii returns with both offsets has end >= start and a
\* value of end - start characters.
C16_OffsetsSpanValue ==
    \A i \in 1..Len(scanResult) :
        (scanResult[i].start # Undefined /\ scanResult[i].end # Undefined)
            => /\ scanResult[i].end >= scanResult[i].start
               /\ Len(scanResult[i].value) = scanResult[i].end - scanResult[i].start

\* C16 witness: a scan returned a built-in span and a custom span that carry
\* both offsets.
C16_SpansWithBothOffsets ==
    \E i, j \in 1..Len(scanResult) :
        /\ FromBuiltIn(scanResult[i]) /\ FromCustom(scanResult[j])
        /\ scanResult[i].start # Undefined /\ scanResult[i].end # Undefined
        /\ scanResult[j].start # Undefined /\ scanResult[j].end # Undefined

\* the digits of text from offset a to offset a + n are a whole run of digits
DigitRun(text, a, n) ==
    /\ a + n <= Len(text)
    /\ AllDigits(text, a, n)
    /\ CharAt(text, a - 1) \notin Digits
    /\ CharAt(text, a + n) \notin Digits

\* the spans of category CREDIT_CARD of a result
CardSpans(result) == {i \in 1..Len(result) : result[i].type = "CREDIT_CARD"}

\* C17: for every run of 13 to 19 digits of the scanned text that is
\* Luhn-valid, whatever its leading digits and its length, detectPii returns
\* a payment-card span whose value is that run.
C17_EveryLuhnValidRunDetected ==
    \A a \in 0..Len(scanText) : \A n \in 13..19 :
        (DigitRun(scanText, a, n) /\ LuhnValid(Substring(scanText, a, a + n)))
            => \E i \in CardSpans(scanResult) :
                  scanResult[i].value = Substring(scanText, a, a + n)

\* C18: for a Luhn-valid card number written with a space between its digit
\* groups, detectPii returns exactly one payment-card span.
C18_SeparatedCardDetectedOnce ==
    scanText \in {S_VISA_SPACED, S_AMEX_SPACED}
        => Cardinality(CardSpans(scanResult)) = 1

\* C19 as stated: every span of category CREDIT_CARD that detectPii returns
\* has a value that luhnCheck accepts.
C19_CardSpanOnlyIfLuhnValid ==
    \A i \in CardSpans(scanResult) : LuhnValid(scanResult[i].value)

\* C19: every span of category CREDIT_CARD that detectPii returns from the
\* built-in matcher, or from a custom pattern that does not itself declare
\* the label CREDIT_CARD, has a value that luhnCheck accepts; so a card-shaped
\* value that fails the Luhn check gets no payment-card span from them.
C19_CardSpanLuhnValidUnlessDeclared ==
    \A i \in CardSpans(scanResult) :
        (FromBuiltIn(scanResult[i])
            \/ DeclaredLabel(scanPatterns, scanResult[i].patternName) # "CREDIT_CARD")
          => LuhnValid(scanResult[i].value)

\* C19 witness: a scan of a card-shaped number that fails the Luhn check,
\* with a custom pattern of a generic label matching it, returned the custom
\* span with the generic category and no payment-card span.
C19_InvalidCardNotLabelled ==
    /\ Test([kind |-> "card"], scanText) /\ ~LuhnValid(scanText)
    /\ CardSpans(scanResult) = {}
    /\ \E i \in 1..Len(scanResult) :
          /\ FromCustom(scanResult[i])
          /\ scanResult[i].value = scanText
          /\ scanResult[i].type = "CUSTOM"

\* C20: luhnCheck accepts a value exactly when its digits, the other
\* characters stripped, are 13 to 19 and the sum of the digits taken from the
\* right, every second one doubled and reduced by 9 when the doubled digit
\* exceeds 9, is a multiple of 10; checked on every scanned text and on the
\* value of every span.
C20_LuhnCheckIsChecksum ==
    /\ luhnCheck(scanText) <=> LuhnValid(scanText)
    /\ \A i \in 1..Len(scanResult) :
          luhnCheck(scanResult[i].value) <=> LuhnValid(scanResult[i].value)

\* C20 witness: luhnCheck accepts a scanned text that holds other characters
\* than digits, and the scan returned the payment-card span that passed
\* luhnCheck in the built-in loop.
C20_AcceptedAfterStripping ==
    /\ luhnCheck(scanText)
    /\ StripNonDigits(scanText) # scanText
    /\ \E i \in CardSpans(scanResult) : FromBuiltIn(scanResult[i])

(***************************************************************************)
(* Claims about the categories a field expects (SpecExpected).             *)
(***************************************************************************)
\* the positions of the spans of result whose category is not in expected
KeptPositions(result, expected) ==
    {i \in 1..Len(result) : result[i].type \notin expected}

\* C21: filterExpectedDetections returns the spans whose category is not in
\* the expected set, each once and in their original order: the j-th span
\* it returns is the j-th of them.
C21_FilterRemovesExpectedOnly ==
    lastCall = "cFilteredScan" =>
        /\ Len(scanFiltered) = Cardinality(KeptPositions(scanResult, scanExpected))
        /\ \A j \in 1..Len(scanFiltered) :
              \E i \in KeptPositions(scanResult, scanExpected) :
                  /\ Cardinality({h \in KeptPositions(scanResult, scanExpected) : h <= i}) = j
                  /\ scanFiltered[j] = scanResult[i]

\* C21 witness: a scan whose filter removed the first span, of an expected
\* category, and kept two others, a built-in one and a custom one.
C21_SomeRemovedSomeKept ==
    /\ lastCall = "cFilteredScan"
    /\ Len(scanResult) >= 3
    /\ scanResult[1].type \in scanExpected
    /\ \E i, j \in 1..Len(scanFiltered) :
          FromBuiltIn(scanFiltered[i]) /\ FromCustom(scanFiltered[j])
    /\ Len(scanFiltered) >= 2
    /\ Len(scanFiltered) < Len(scanResult)

\* the words that name category in the name, placeholder, label or title of a
\* field
NamingWords(category) ==
    {keyword.parts[1] : keyword \in
        CASE category = "EMAIL" -> EMAIL_KEYWORDS
          [] category = "PHONE" -> PHONE_KEYWORDS
          [] category = "PASSWORD" -> PASSWORD_KEYWORDS
          [] category = "SSN" -> {k \in SSN_KEYWORDS : Len(k.parts) = 1}
          [] category = "CREDIT_CARD" -> {k \in CARD_KEYWORDS : Len(k.parts) = 1}
          [] OTHER -> {k \in DOB_KEYWORDS : Len(k.parts) = 1}}

\* the declared kind of element names category
KindNames(element, category) ==
    \/ category = "EMAIL" /\ LowerAll(element.type) = <<"e", "m", "a", "i", "l">>
    \/ category = "PHONE" /\ LowerAll(element.type) = <<"t", "e", "l">>
    \/ category = "PASSWORD" /\ LowerAll(element.type) = <<"p", "a", "s", "s", "w", "o", "r", "d">>

\* C22: the expected set of a field holds every category that the field's
\* declared kind names or one of whose keywords is a substring, whatever the
\* case, of the field's name, placeholder, label or title.
C22_KeywordSubstringExpected ==
    \A category \in {"EMAIL", "PHONE", "PASSWORD", "SSN", "CREDIT_CARD", "DATE_OF_BIRTH"} :
        (\/ KindNames(scanElement, category)
         \/ \E word \in NamingWords(category) :
               \E text \in {scanElement.name, scanElement.placeholder,
                             scanElement.label, scanElement.title} :
                   Includes(LowerAll(text), word))
            => category \in scanExpected

(***************************************************************************)
(* Claims about masking (SpecMask).  maskLog holds the last call of        *)
(* handleAnonymize: the detections in the order of the forEach, and the    *)
(* value of the field before and after.                                    *)
(***************************************************************************)
\* the detections of category type that handleAnonymize was called with
Masked(types) ==
    IF maskLog.count = 0 THEN {}
    ELSE {d \in Range(maskLog.detections) : d.type \in types}

\* the offsets of the digits of value
DigitOffsets(value) == {k \in 0..(Len(value) - 1) : value[k + 1] \in Digits}

\* the offsets of the last 4 digits of value, of all when there are fewer
\* than 5
LastFourOffsets(value) ==
    {k \in DigitOffsets(value) : Cardinality({j \in DigitOffsets(value) : j > k}) < 4}

\* C23: for a span of category SSN or PHONE, anonymizeValue returns a text
\* of the same length in which every non-digit and the last 4 digits (all
\* digits when there are fewer than 5) are unchanged and every earlier digit
\* is the redaction glyph
C23_DigitsMaskedButLastFour ==
    \A d \in Masked({"SSN", "PHONE"}) :
        /\ Len(anonymizeValue(d)) = Len(d.value)
        /\ \A k \in 0..(Len(d.value) - 1) :
              CharAt(anonymizeValue(d), k) =
                 IF k \in DigitOffsets(d.value) \ LastFourOffsets(d.value)
                 THEN GLYPH ELSE CharAt(d.value, k)

\* witness of C23: the SSN 123-45-6789 was masked in the field to five
\* glyphs, the separators and 6789
C23_SsnMaskedInField ==
    /\ maskLog.count > 0
    /\ maskLog.before = S_SSN
    /\ maskLog.after = <<GLYPH, GLYPH, GLYPH, "-", GLYPH, GLYPH, "-", "6", "7", "8", "9">>
    /\ fieldText[maskLog.input] = maskLog.after

\* the number of groups of a card number: its spaces, plus one
Groups(value) == Cardinality({k \in 0..(Len(value) - 1) : value[k + 1] = " "}) + 1

\* C24: for a span of category CREDIT_CARD, the text anonymizeValue returns
\* holds no digit other than the last 4 of the number and has as many
\* groups and separators as the number
C24_CardKeepsGrouping ==
    \A d \in Masked({"CREDIT_CARD"}) :
        ~AnonymizeThrows(d) =>
            /\ StripNonDigits(anonymizeValue(d)) = Last4(StripNonDigits(d.value))
            /\ Groups(anonymizeValue(d)) = Groups(d.value)

\* the offset of the only "@" of value, -1 when value has none or several
OnlyAt(value) ==
    IF Cardinality({k \in 0..(Len(value) - 1) : value[k + 1] = "@"}) = 1
    THEN CHOOSE k \in 0..(Len(value) - 1) : value[k + 1] = "@"
    ELSE -1

\* C25: for a span of category EMAIL of the form local@domain,
\* anonymizeValue returns the first character of local, one glyph for each
\* other character of local but never fewer than 2 glyphs, "@" and the
\* domain unchanged
C25_EmailKeepsFirstAndDomain ==
    \A d \in Masked({"EMAIL"}) :
        (OnlyAt(d.value) > 0 /\ OnlyAt(d.value) < Len(d.value) - 1) =>
            /\ CharAt(anonymizeValue(d), 0) = CharAt(d.value, 0)
            /\ Len(anonymizeValue(d)) - Len(d.value)
                  = (IF OnlyAt(d.value) - 1 < 2 THEN 2 ELSE OnlyAt(d.value) - 1)
                        - (OnlyAt(d.value) - 1)
            /\ \A k \in 1..(Len(anonymizeValue(d)) - (Len(d.value) - OnlyAt(d.value)) - 1) :
                  CharAt(anonymizeValue(d), k) = GLYPH
            /\ \A j \in 1..(Len(d.value) - OnlyAt(d.value)) :
                  anonymizeValue(d)[Len(anonymizeValue(d)) - j + 1]
                     = d.value[Len(d.value) - j + 1]

\* witness of C25: a@b.co, whose local part has one character, was masked in
\* the field to a, two glyphs and @b.co
C25_ShortLocalPartMasked ==
    /\ maskLog.count > 0
    /\ maskLog.before = S_EMAIL
    /\ maskLog.after = <<"a", GLYPH, GLYPH, "@", "b", ".", "c", "o">>
    /\ fieldText[maskLog.input] = maskLog.after

\* the span of "reach me at j.doe@example.com"
D_JDOE == [type |-> "EMAIL", value |-> Substring(T_REACH, 12, Len(T_REACH))]

\* the badge shows the scan of "reach me at j.doe@example.com" made with no
\* custom pattern, and the user masks the spans of that scan
ReachMasked ==
    /\ maskLog.count > 0
    /\ maskLog.before = T_REACH
    /\ indicator.kind = "badge"
    /\ indicator.inputText = T_REACH
    /\ customPatterns = <<>>
    /\ maskLog.detections = SortByLength([i \in 1..Len(indicator.detections) |->
                                            Req(indicator.detections[i])])

\* C26 as stated: the scan of "reach me at j.doe@example.com" yields exactly
\* one span, of category EMAIL, and masking it yields j, seven glyphs and
\* @example.com
C26_SevenGlyphs ==
    ReachMasked =>
        /\ Len(indicator.detections) = 1
        /\ Req(indicator.detections[1]) = D_JDOE
        /\ anonymizeValue(D_JDOE) =
              <<"j">> \o Repeat(GLYPH, 7) \o Substring(T_REACH, 17, Len(T_REACH))

\* C26, amended: the scan of "reach me at j.doe@example.com" yields exactly
\* one span, of category EMAIL with value j.doe@example.com, and masking it
\* yields j, four glyphs (one for each other character of j.doe) and
\* @example.com
C26_FourGlyphs ==
    ReachMasked =>
        /\ Len(indicator.detections) = 1
        /\ Req(indicator.detections[1]) = D_JDOE
        /\ indicator.detections[1].start = 12
        /\ anonymizeValue(D_JDOE) =
              <<"j">> \o Repeat(GLYPH, 4) \o Substring(T_REACH, 17, Len(T_REACH))
        /\ maskLog.after = Substring(T_REACH, 0, 12) \o anonymizeValue(D_JDOE)

\* witness of C26: the span of "reach me at j.doe@example.com" was masked in
\* the field
C26_ReachMaskedInField ==
    /\ ReachMasked
    /\ fieldText[maskLog.input] = Substring(T_REACH, 0, 13) \o Repeat(GLYPH, 4)
                                    \o Substring(T_REACH, 17, Len(T_REACH))

\* C27: for every span of every category, the text anonymizeValue returns
\* does not contain the value of the span
C27_MaskNeverContainsValue ==
    maskLog.count > 0 =>
        \A i \in 1..Len(maskLog.detections) :
            ~AnonymizeThrows(maskLog.detections[i]) =>
                IndexOfText(anonymizeValue(maskLog.detections[i]),
                            maskLog.detections[i].value) < 0

\* newValue before the i-th detection of the forEach is handled
TextBefore(i) == ReplaceEach(maskLog.before, SubSeq(maskLog.detections, 1, i - 1))

\* C28: when the value of a span of the request no longer appears in the
\* text at its turn, handleAnonymize raises no exception, leaves the text
\* unchanged for that span and masks the other spans of the request: the
\* field holds what masking the other spans alone gives
C28_AbsentSpanLeftAlone ==
    maskLog.count > 0 =>
        \A i \in 1..Len(maskLog.detections) :
            IndexOfText(TextBefore(i), maskLog.detections[i].value) < 0 =>
                /\ ~maskLog.threw
                /\ maskLog.after = ReplaceEach(maskLog.before, RemoveAt(maskLog.detections, i))

(***************************************************************************)
(* Claims about the scan gate (SpecGate).                                  *)
(***************************************************************************)
\* text has a character that is no blank
HasNonBlank(text) ==
    LET n == Len(text) IN \E i \in 1..n : text[i] \notin Whitespace

\* the position of the first and of the last character that is no blank
FirstNonBlank(text) ==
    LET n == Len(text) IN
    CHOOSE i \in 1..n :
        text[i] \notin Whitespace /\ \A j \in 1..(i - 1) : text[j] \in Whitespace
LastNonBlank(text) ==
    LET n == Len(text) IN
    n - (CHOOSE k \in 0..(n - 1) :
             text[n - k] \notin Whitespace /\ \A j \in 0..(k - 1) : text[n - j] \in Whitespace)

\* the length of text without the blanks at its ends
TrimmedLength(text) ==
    IF HasNonBlank(text) THEN LastNonBlank(text) - FirstNonBlank(text) + 1 ELSE 0

\* the texts the claim says the gate rejects
Rejected(text) ==
    \/ Len(text) = 0
    \/ TrimmedLength(text) < 10
    \/ Len(text) > 5000
    \/ Len(text) > 20 /\ Cardinality(Range(text)) < 5

\* shouldScanText(text) is false exactly for the texts the claim lists
GateAsStated == gateLog.called => (gateLog.result = ~Rejected(gateLog.text))

C1_AtMostOneRemoteCall ==
    \A i, j \in 1..Len(calls) :
        (i < j /\ calls[i].text = calls[j].text)
            => calls[j].time - calls[i].time >= CACHE_DURATION

\* C2: the response of a remote call whose field was abandoned while the call
\* was in flight is never rendered for another field, the one that is active
\* when it arrives.
C2_AbandonedResponseIgnored ==
    indicator.kind # "none"
        => ~(indicator.abandoned /\ indicator.field # indicator.from)

\* C3: what is rendered is the result of the scan started last for its
\* field: a scan that completes after a newer scan of the same field has
\* started renders nothing.
C3_NewestScanRendered ==
    indicator.kind # "none" => indicator.scan = indicator.newest

(***************************************************************************)
(* Claims about the eviction of cache entries (SpecSweep).                 *)
(***************************************************************************)
\* the keys of the texts the fields of the page hold
SweepKeys == {getCacheKey(T_A), getCacheKey(T_SHORT)}

\* the entry of key k has outlived the time-to-live
Expired(k) ==
    k \in DOMAIN aiScanCache /\ now - aiScanCache[k].timestamp > CACHE_DURATION

\* C30: every cache entry whose time-to-live has elapsed is eventually
\* evicted, whether or not another scan or remote response occurs, while the
\* timer keeps firing
C30_ExpiredEntryEvicted ==
    \A k \in SweepKeys : Expired(k) ~> (k \notin DOMAIN aiScanCache)

(***************************************************************************)
(* Claims about the offsets of every span (SpecShapes).                    *)
(***************************************************************************)
\* C40: every span that detectPii returns carries both offsets, start the
\* position of the match and end = start + length(value), wherever the match
\* is in the text, position 0 included, for built-in and custom patterns
C40_EverySpanHasBothOffsets ==
    \A i \in 1..Len(scanResult) :
        /\ scanResult[i].start # Undefined
        /\ scanResult[i].end # Undefined
        /\ scanResult[i].end = scanResult[i].start + Len(scanResult[i].value)

(***************************************************************************)
(* Claims about the calls of anonymizeValue (SpecMask).                    *)
(***************************************************************************)
\* C39: anonymizeValue returns a string, without throwing, for every
\* detection that handleAnonymize passes to it, a payment-card value of
\* fewer than 4 characters other than blanks included
C39_AnonymizeValueReturns ==
    maskLog.count > 0 =>
        \A i \in 1..Len(maskLog.detections) : ~AnonymizeThrows(maskLog.detections[i])

(***************************************************************************)
(* Claims about the merge of personal and team patterns (SpecMerge).       *)
(***************************************************************************)
\* the patterns of list with the given id
WithId(list, id) == SelectSeq(list, LAMBDA p : p.id = id)

\* C36: when a personal pattern and a team pattern have the same id, the
\* merged set holds exactly one pattern with that id, the personal one.
C36_PersonalPatternWins ==
    mergeLog.merged =>
        \A i \in 1..Len(mergeLog.personal), j \in 1..Len(mergeLog.team) :
            mergeLog.personal[i].id = mergeLog.team[j].id
                => WithId(mergeLog.unique, mergeLog.team[j].id) = <<mergeLog.personal[i]>>

(***************************************************************************)
(* Claims about the keys of the cache (SpecCache).                         *)
(***************************************************************************)
\* C35: the remote detections a scan of text t takes from the cache were
\* produced by a remote classification of a text identical to t: what is
\* rendered as the remote detections of a scan comes from an analyzeContext
\* call for the text of that scan.
C35_CachedResultOfSameText ==
    (indicator.kind # "none" /\ ~indicator.ai.isNull) =>
        \E i \in 1..Len(calls) : calls[i].text = started[indicator.scan].text


\* C33: a scan by detectPii of a text that holds a key with a provider prefix
\* (sk_live_, sk_test_, pk_ or rk_ and at least 24 alphanumeric characters)
\* and no "api_key" label returns an API_KEY span whose value contains the
\* key.
C33_PrefixedKeyDetected ==
    (lastCall \in {"cScan", "cScanAgain"} /\ scanText \in UnlabelledKeyTexts)
        => \E i \in 1..Len(scanResult) :
              /\ scanResult[i].type = "API_KEY"
              /\ Includes(scanResult[i].value, KeyOf(scanText))

\* a labelled key is returned as an API_KEY span that contains it
C33_LabelledKeyDetected ==
    /\ lastCall = "cScan"
    /\ scanText = S_API_KEY_EQ \o S_SK_LIVE \o S_KEY24
    /\ \E i \in 1..Len(scanResult) :
          /\ scanResult[i].type = "API_KEY"
          /\ scanResult[i].value = scanText


\* C34: the text performAiScan passes to analyzeContext holds, besides
\* redaction markers, only characters of the scanned text that no span of
\* the local high-confidence patterns covers, whatever spans overlap or are
\* nested; and a private key or an AWS key that was found is not in it.
C34_SentTextHoldsNoLocalSpan ==
    (aiScan.stage # "idle" /\ aiScan.called)
        => /\ IsSubsequence(WithoutRedactionsFrom(aiScan.sent, 0),
                            UncoveredFrom(aiScan.scan.text, aiScan.local, 0))
           /\ \A i \in 1..Len(aiScan.local) :
                 aiScan.local[i].type \in {"PRIVATE_KEY", "AWS_KEY"}
                    => ~Includes(aiScan.sent, aiScan.local[i].value)

\* C32: what performAiScan returns and caches after analyzeContext resolved
\* holds no detection whose value is a redaction marker and no detection,
\* local or remote, whose value is the value of a pattern detection of the
\* scan.
C32_ReturnedHoldsNoMarkerNoDuplicate ==
    (aiScan.stage = "returned" /\ aiScan.called /\ ~aiScan.failed)
        => /\ aiScan.cached[Len(aiScan.cached)].detections = aiScan.returned.detections
           /\ \A i \in 1..Len(aiScan.returned.detections) :
                 /\ ~IsRedactionMarkerOrTyped(aiScan.returned.detections[i].value)
                 /\ \A j \in 1..Len(aiScan.scan.results) :
                       aiScan.scan.results[j].value # aiScan.returned.detections[i].value

\* C31: when the remote call of performAiScan fails (analyzeContext rejects,
\* or there is no API client), performAiScan returns null, the handler
\* passes the pattern detections of the scan and null to handleDetection,
\* which renders them on the active field, no result is cached, and the
\* invocation is over, so that the next scan can call analyzeContext.
C31_FailedScanStep ==
    (aiScan'.stage = "returned" /\ aiScan'.failed /\ aiScan' # aiScan)
        => /\ aiScan'.returned = AiNull
           /\ aiScan'.cached = aiScan.cached
           /\ \A i \in 1..Len(aiScan'.cached) : aiScan'.cached[i].text # aiScan'.scan.text
           /\ \/ activeInput' = Null
              \/ /\ indicator'.kind # "none"
                 /\ indicator'.detections = aiScan'.scan.results
                 /\ indicator'.ai = AiNull
              \/ \E sc \in scans' :
                    /\ sc.stage = "team"
                    /\ sc.id = aiScan'.scan.id
                    /\ sc.results = aiScan'.scan.results
                    /\ sc.ai = AiNull

C31_FailedScanLeavesCacheAndRenders == [][C31_FailedScanStep]_vars

\* the second scan of a text has called analyzeContext after the call of the
\* first scan was rejected, and the badge shows the pattern detections
C31_SecondCallAfterRejection ==
    /\ Len(calls) = 2
    /\ calls[1].text = calls[2].text
    /\ aiScan.stage = "analyze"
    /\ aiScan.cached = <<>>
    /\ indicator.kind = "badge"
    /\ indicator.detections = aiScan.scan.results

====
